---- MODULE Spec2Model ----
(***************************************************************************)
(* A model of zvshlib/zvsh.py: the text formats it writes (manifest,       *)
(* nvram), the channels it allocates for the arguments, the images and     *)
(* the standard streams (process_args, prepare_channels, run_zerovm), the  *)
(* report protocol (parse_return_code) and the supervision of the ZeroVM   *)
(* child process (ZvRunner.run).                                           *)
(*                                                                         *)
(* Python strings are sequences of one-character strings, so that          *)
(* splitting, replacing and formatting are computed character by           *)
(* character.  Python ints that do not fit a machine word are sequences    *)
(* of base-2^16 limbs, least significant first.                            *)
(***************************************************************************)
EXTENDS Integers, Sequences, FiniteSets, TLC

VARIABLES
    \* _nvram_escape applied once and twice to a value
    esc_value, esc_once, esc_twice, esc_phase,
    \* parse_return_code applied to a report
    prc_report, prc_result,
    \* Manifest.dumps / Channel.to_manifest
    manifest, man_out, chan_in, chan_line,
    \* ZvRunner: the coordinator (run), the child process, the four threads
    pc, getrc, rc, report, process, returncode,
    child_report, child_todo, pipe, threads, joined,
    parsed, dumped, exit_status, caught, exc, interrupts,
    \* NVRAM / _get_nvram / NVRAM.dumps
    nv_in, nvram, nv_via, nv_text,
    \* run_zerovm up to the manifest: its inputs, the place it is at, the
    \* ZvArgs, the channel lists and the exception that ended it
    rz_in, rz_pc, rz_zvargs, rz_base, rz_fstab, rz_manifest_channels,
    rz_nvram_channels, rz_manifest, rz_exc,
    \* run_zerovm and the file system: what it finds there, the working
    \* directory and the files in it, what it has done so far, the images
    \* _extract_nexe has opened, the descriptor it has built
    rz_env, rz_dir, rz_files, rz_log, rz_opened, rz_nvram

escVars == <<esc_value, esc_once, esc_twice, esc_phase>>
prcVars == <<prc_report, prc_result>>
manVars == <<manifest, man_out, chan_in, chan_line>>
runVars == <<pc, getrc, rc, report, process, returncode,
             child_report, child_todo, pipe, threads, joined,
             parsed, dumped, exit_status, caught, exc, interrupts>>
nvVars == <<nv_in, nvram, nv_via, nv_text>>
\* the groups of the later sections
rzVars == <<rz_in, rz_pc, rz_zvargs, rz_base, rz_fstab, rz_manifest_channels,
           rz_nvram_channels, rz_manifest, rz_exc>>
fsVars == <<rz_env, rz_dir, rz_files, rz_log, rz_opened, rz_nvram>>
moreVars == <<nvVars, rzVars, fsVars>>
vars == <<escVars, prcVars, manVars, runVars, moreVars>>

----------------------------------------------------------------------------
(* Bounds of the model *)

\* most arguments after the command in the argument vector of a descriptor
MaxArgs == 2

\* most archive images _extract_nexe is told the state of
MaxTars == 3

\* longest value handed to _nvram_escape
MaxEscLen == 3

\* most newline-separated fields of a report handed to parse_return_code
MaxFields == 5

\* most channels of a manifest
MaxChannels == 2

\* most KeyboardInterrupts delivered to the coordinator in one run
MaxInterrupts == 2

----------------------------------------------------------------------------
(* Python str operations, on sequences of characters *)

\* all strings over alphabet A of length at most n
Strings(A, n) == UNION {[1..k -> A] : k \in 0..n}

\* s.startswith(p)
startswith(s, p) == Len(p) <= Len(s) /\ SubSeq(s, 1, Len(p)) = p

\* s.replace(old, new) for a non-empty old: every non-overlapping
\* occurrence, scanning left to right
RECURSIVE str_replace(_, _, _)
str_replace(s, old, new) ==
    IF s = <<>> THEN <<>>
    ELSE IF startswith(s, old)
         THEN new \o str_replace(SubSeq(s, Len(old) + 1, Len(s)), old, new)
         ELSE <<Head(s)>> \o str_replace(Tail(s), old, new)

\* ord(c) for the characters _nvram_escape names
ord(c) ==
    CASE c = "\\" -> 92
      [] c = "\"" -> 34
      [] c = ","  -> 44
      [] c = " "  -> 32
      [] c = "\n" -> 10

HexDigits == <<"0", "1", "2", "3", "4", "5", "6", "7",
               "8", "9", "a", "b", "c", "d", "e", "f">>

\* '\\x%02x' % n, for 0 <= n < 256
hex_escape(n) == <<"\\", "x", HexDigits[(n \div 16) + 1], HexDigits[(n % 16) + 1]>>

\* s.find(c) for a character c, counted from 1; 0 when c is not in s
str_find(s, c) ==
    IF \E i \in 1..Len(s) : s[i] = c
    THEN CHOOSE i \in 1..Len(s) : s[i] = c /\ \A j \in 1..(i - 1) : s[j] # c
    ELSE 0

\* s.split(sep, maxsplit) for a one-character sep: at most maxsplit cuts
RECURSIVE str_split(_, _, _)
str_split(s, sep, maxsplit) ==
    LET i == str_find(s, sep)
    IN  IF maxsplit = 0 \/ i = 0 THEN <<s>>
        ELSE <<SubSeq(s, 1, i - 1)>>
                 \o str_split(SubSeq(s, i + 1, Len(s)), sep, maxsplit - 1)

Whitespace == {" ", "\n", "\t", "\r"}
Digits == <<"0", "1", "2", "3", "4", "5", "6", "7", "8", "9">>
IsDigit(c) == \E d \in 1..10 : Digits[d] = c
digit_value(c) == (CHOOSE d \in 1..10 : Digits[d] = c) - 1

\* s.strip()
RECURSIVE str_lstrip(_)
str_lstrip(s) ==
    IF s # <<>> /\ Head(s) \in Whitespace THEN str_lstrip(Tail(s)) ELSE s
RECURSIVE str_rstrip(_)
str_rstrip(s) ==
    IF s # <<>> /\ s[Len(s)] \in Whitespace
    THEN str_rstrip(SubSeq(s, 1, Len(s) - 1)) ELSE s
str_strip(s) == str_rstrip(str_lstrip(s))

\* the value of a string of digits
RECURSIVE digits_value(_)
digits_value(s) ==
    IF s = <<>> THEN 0
    ELSE 10 * digits_value(SubSeq(s, 1, Len(s) - 1)) + digit_value(s[Len(s)])

\* int(s): surrounding whitespace is dropped, one sign is allowed, the rest
\* must be one or more digits; ok = FALSE stands for ValueError
py_int(s) ==
    LET t == str_strip(s)
        signed == t # <<>> /\ Head(t) \in {"+", "-"}
        body == IF signed THEN Tail(t) ELSE t
        good == body # <<>> /\ \A i \in 1..Len(body) : IsDigit(body[i])
    IN  IF ~good THEN [ok |-> FALSE, val |-> 0]
        ELSE [ok |-> TRUE,
              val |-> IF signed /\ Head(t) = "-"
                      THEN 0 - digits_value(body) ELSE digits_value(body)]

\* ''.join(parts)
RECURSIVE concat(_)
concat(parts) == IF parts = <<>> THEN <<>> ELSE Head(parts) \o concat(Tail(parts))

\* sep.join(parts)
RECURSIVE str_join(_, _)
str_join(sep, parts) ==
    IF parts = <<>> THEN <<>>
    ELSE IF Len(parts) = 1 THEN parts[1]
    ELSE parts[1] \o sep \o str_join(sep, Tail(parts))

----------------------------------------------------------------------------
(* Python values: an int is a sequence of base-2^16 limbs, least           *)
(* significant first and without leading zero limbs (0 is <<>>); a str is  *)
(* a sequence of characters                                                *)

LimbBase == 2^16

PyInt(limbs) == [t |-> "int", i |-> limbs, s |-> <<>>]
PyStr(chars) == [t |-> "str", i |-> <<>>, s |-> chars]
\* an int below 2^16
Small(n) == PyInt(IF n = 0 THEN <<>> ELSE <<n>>)

\* limbs without their leading (most significant) zero limbs
RECURSIVE limbs_normalize(_)
limbs_normalize(n) ==
    IF n # <<>> /\ n[Len(n)] = 0
    THEN limbs_normalize(SubSeq(n, 1, Len(n) - 1)) ELSE n

\* divmod(n, 10), long division from the most significant limb down
RECURSIVE limbs_divmod10(_, _)
limbs_divmod10(n, carry) ==
    IF n = <<>> THEN [q |-> <<>>, r |-> carry]
    ELSE LET cur == carry * LimbBase + n[Len(n)]
             low == limbs_divmod10(SubSeq(n, 1, Len(n) - 1), cur % 10)
         IN  [q |-> low.q \o <<cur \div 10>>, r |-> low.r]

\* the decimal digits of a positive int
RECURSIVE int_digits(_)
int_digits(n) ==
    IF n = <<>> THEN <<>>
    ELSE LET d == limbs_divmod10(n, 0)
         IN  int_digits(limbs_normalize(d.q)) \o <<Digits[d.r + 1]>>

\* str(n) for an int n >= 0
int_str(n) == IF n = <<>> THEN <<"0">> ELSE int_digits(n)

\* '%s' % v
py_format(v) == IF v.t = "int" THEN int_str(v.i) ELSE v.s

----------------------------------------------------------------------------
(* _nvram_escape *)

\* the characters of the for loop, in its order: '\\", \n'
ESCAPE_CHARS == <<"\\", "\"", ",", " ", "\n">>

\* for c in cs: value = value.replace(c, '\\x%02x' % ord(c))
RECURSIVE escape_loop(_, _)
escape_loop(value, cs) ==
    IF cs = <<>> THEN value
    ELSE escape_loop(str_replace(value, <<Head(cs)>>, hex_escape(ord(Head(cs)))),
                     Tail(cs))

\* mutant: the backslash is replaced last instead of first
_nvram_escape_backslash_last(value) ==
    escape_loop(value, <<"\"", ",", " ", "\n", "\\">>)

\* mutant: the backslash itself is not escaped
_nvram_escape_no_backslash(value) ==
    escape_loop(value, <<"\"", ",", " ", "\n">>)

_nvram_escape(value) == escape_loop(value, ESCAPE_CHARS)

----------------------------------------------------------------------------
(* parse_return_code *)

\* 'user return code = '
USER_RETURN_CODE == <<"u", "s", "e", "r", " ", "r", "e", "t", "u", "r", "n", " ",
                      "c", "o", "d", "e", " ", "=", " ">>

Return(v) == [kind |-> "return", val |-> v, exc |-> ""]
Raise(e) == [kind |-> "raise", val |-> 0, exc |-> e]

\* rc = report.split('\n', maxsplit)[2]; int(rc), and on ValueError
\* int(rc.replace('user return code = ', ''))
parse_with(text, maxsplit) ==
    LET fields == str_split(text, "\n", maxsplit)
    IN  IF Len(fields) < 3 THEN Raise("IndexError")
        ELSE LET field == fields[3]
                 first == py_int(field)
                 second == py_int(str_replace(field, USER_RETURN_CODE, <<>>))
             IN  IF first.ok THEN Return(first.val)
                 ELSE IF second.ok THEN Return(second.val)
                 ELSE Raise("ValueError")

\* mutant: split('\n', 2), which leaves the rest of the report in the
\* third field
parse_return_code_maxsplit2(text) == parse_with(text, 2)

parse_return_code(text) == parse_with(text, 5)

----------------------------------------------------------------------------
(* Channel and Manifest *)

\* 4294967296
READS_DEFAULT == <<0, 0, 1>>
RBYTES_DEFAULT == <<0, 0, 1>>
WRITES_DEFAULT == <<0, 0, 1>>
WBYTES_DEFAULT == <<0, 0, 1>>

SEQ_READ_SEQ_WRITE == 0
RND_READ_RND_WRITE == 3

_DEFAULT_MOUNT_DIR == <<"/">>
_DEFAULT_MOUNT_ACCESS == <<"r", "o">>

\* Channel.__init__ with every keyword argument given
Channel(uri, alias, access_type, access, mount_dir, etag, reads, rbytes, writes, wbytes, mode, is_image) ==
    [uri |-> uri, alias |-> alias, access_type |-> access_type,
     access |-> access, mount_dir |-> mount_dir, etag |-> etag,
     reads |-> reads, rbytes |-> rbytes, writes |-> writes, wbytes |-> wbytes,
     mode |-> mode, is_image |-> is_image]

\* Channel.__init__ with the keyword arguments left at their defaults,
\* except the limits
ChannelWithLimits(uri, alias, access_type, reads, rbytes, writes, wbytes) ==
    Channel(uri, alias, access_type, _DEFAULT_MOUNT_ACCESS, _DEFAULT_MOUNT_DIR,
            Small(0), reads, rbytes, writes, wbytes, <<"f", "i", "l", "e">>, FALSE)

\* Channel.__init__ with only the positional arguments
ChannelDefault(uri, alias, access_type) ==
    ChannelWithLimits(uri, alias, access_type,
                      PyInt(READS_DEFAULT), PyInt(RBYTES_DEFAULT),
                      PyInt(WRITES_DEFAULT), PyInt(WBYTES_DEFAULT))

\* 'Channel = %s,%s,%s,%s,%s,%s,%s,%s' % (uri, alias, access_type, etag,
\*                                        reads, rbytes, writes, wbytes)
Channel_str(c) ==
    <<"C", "h", "a", "n", "n", "e", "l", " ", "=", " ">>
        \o str_join(<<",">>, <<c.uri, c.alias, py_format(c.access_type),
                               py_format(c.etag), py_format(c.reads),
                               py_format(c.rbytes), py_format(c.writes),
                               py_format(c.wbytes)>>)

Channel_to_manifest(c) == Channel_str(c)

\* the lines of MANIFEST_TEMPLATE before %(channels)s, each with its newline
ManifestHeader(m) ==
    concat(<< <<"N", "o", "d", "e", " ", "=", " ">>, py_format(m.node), <<"\n">>,
              <<"V", "e", "r", "s", "i", "o", "n", " ", "=", " ">>,
                  py_format(m.version), <<"\n">>,
              <<"T", "i", "m", "e", "o", "u", "t", " ", "=", " ">>,
                  py_format(m.timeout), <<"\n">>,
              <<"M", "e", "m", "o", "r", "y", " ", "=", " ">>,
                  py_format(m.memory), <<",">>, py_format(m.etag), <<"\n">>,
              <<"P", "r", "o", "g", "r", "a", "m", " ", "=", " ">>,
                  m.program, <<"\n">> >>)

\* '\n'.join([c.to_manifest() for c in self.channels])
ManifestChannels(m) ==
    str_join(<<"\n">>, [i \in 1..Len(m.channels) |-> Channel_to_manifest(m.channels[i])])

TextResult(t) == [kind |-> "return", text |-> t, exc |-> ""]
TextRaise(e) == [kind |-> "raise", text |-> <<>>, exc |-> e]

\* mutant: the check for an empty channel list is missing
Manifest_dumps_unchecked(m) == TextResult(ManifestHeader(m) \o ManifestChannels(m))

\* mutant: the channels are written in reverse order
Manifest_dumps_reversed(m) ==
    IF m.channels = <<>> THEN TextRaise("RuntimeError")
    ELSE TextResult(ManifestHeader(m) \o
             str_join(<<"\n">>, [i \in 1..Len(m.channels) |->
                 Channel_to_manifest(m.channels[Len(m.channels) + 1 - i])]))

Manifest_dumps(m) ==
    IF m.channels = <<>> THEN TextRaise("RuntimeError")
    ELSE TextResult(ManifestHeader(m) \o ManifestChannels(m))

----------------------------------------------------------------------------
(* NVRAM *)

\* 'channel=%(alias)s,mountpoint=%(mp)s,access=%(access)s,removable=no'
Channel_to_nvram_fstab(c) ==
    concat(<< <<"c", "h", "a", "n", "n", "e", "l", "=">>, c.alias,
              <<",", "m", "o", "u", "n", "t", "p", "o", "i", "n", "t", "=">>, c.mount_dir,
              <<",", "a", "c", "c", "e", "s", "s", "=">>, c.access,
              <<",", "r", "e", "m", "o", "v", "a", "b", "l", "e", "=", "n", "o">> >>)

\* 'channel=%(alias)s,mode=%(mode)s'
Channel_to_nvram_mapping(c) ==
    concat(<< <<"c", "h", "a", "n", "n", "e", "l", "=">>, c.alias, <<",", "m", "o", "d", "e", "=">>, c.mode >>)

\* a dict that keeps insertion order is the sequence of its <<key, value>>
\* items; env=None is NoEnv, debug_verbosity=None is NoVerbosity
NoEnv == [is_none |-> TRUE, items |-> <<>>]
Env(items) == [is_none |-> FALSE, items |-> items]
NoVerbosity == [is_none |-> TRUE, val |-> Small(0)]
Verbosity(v) == [is_none |-> FALSE, val |-> v]

\* NVRAM.__init__
NVRAM(program_args, channels, env, debug_verbosity) ==
    [program_args |-> program_args, channels |-> channels, env |-> env,
     debug_verbosity |-> debug_verbosity]

IsImage(c) == c.is_image
NotImage(c) == ~c.is_image

\* mutant: the joined line is escaped, not each argument
NvramArgs_escape_joined(nv) ==
    _nvram_escape(str_join(<<" ">>, nv.program_args))

\* ' '.join(map(_nvram_escape, self.program_args))
NvramArgs(nv) ==
    str_join(<<" ">>, [i \in 1..Len(nv.program_args) |->
                          _nvram_escape(nv.program_args[i])])

\* '\n'.join([c.to_nvram_fstab() for c in self.channels if c.is_image])
NvramFstab(nv) ==
    LET images == SelectSeq(nv.channels, IsImage)
    IN  str_join(<<"\n">>, [i \in 1..Len(images) |->
                               Channel_to_nvram_fstab(images[i])])

\* '\n'.join([c.to_nvram_mapping() for c in self.channels if not c.is_image])
NvramMapping(nv) ==
    LET others == SelectSeq(nv.channels, NotImage)
    IN  str_join(<<"\n">>, [i \in 1..Len(others) |->
                               Channel_to_nvram_mapping(others[i])])

\* 'name=%s,value=%s\n' % (k, _nvram_escape(v)) for every item
NvramEnv(items) ==
    concat([i \in 1..Len(items) |->
               concat(<< <<"n", "a", "m", "e", "=">>, items[i][1], <<",", "v", "a", "l", "u", "e", "=">>,
                         _nvram_escape(items[i][2]), <<"\n">> >>)])

\* mutant: the [mapping] section is written before the [fstab] section
NvramTemplate_mapping_first(args, fstab, mapping) ==
    concat(<< <<"[", "a", "r", "g", "s", "]", "\n", "a", "r", "g", "s", " ", "=", " ">>, args,
              <<"\n", "[", "m", "a", "p", "p", "i", "n", "g", "]", "\n">>, mapping,
              <<"\n", "[", "f", "s", "t", "a", "b", "]", "\n">>, fstab, <<"\n">> >>)

\* NVRAM_TEMPLATE % dict(args=..., fstab=..., mapping=...)
NvramTemplate(args, fstab, mapping) ==
    concat(<< <<"[", "a", "r", "g", "s", "]", "\n", "a", "r", "g", "s", " ", "=", " ">>, args,
              <<"\n", "[", "f", "s", "t", "a", "b", "]", "\n">>, fstab,
              <<"\n", "[", "m", "a", "p", "p", "i", "n", "g", "]", "\n">>, mapping, <<"\n">> >>)

NvramEnvSection(nv) ==
    IF nv.env.is_none THEN <<>>
    ELSE <<"[", "e", "n", "v", "]", "\n">> \o NvramEnv(nv.env.items)

NvramDebugSection(nv) ==
    IF nv.debug_verbosity.is_none THEN <<>>
    ELSE concat(<< <<"[", "d", "e", "b", "u", "g", "]", "\n", "v", "e", "r", "b", "o", "s", "i", "t", "y", "=">>,
                   py_format(nv.debug_verbosity.val), <<"\n">> >>)

NVRAM_dumps(nv) ==
    NvramTemplate(NvramArgs(nv), NvramFstab(nv), NvramMapping(nv))
        \o NvramEnvSection(nv) \o NvramDebugSection(nv)

\* d[k] = v on a dict that keeps insertion order: a key already present
\* keeps its place and takes the new value
dict_set(items, k, v) ==
    IF \E i \in 1..Len(items) : items[i][1] = k
    THEN [i \in 1..Len(items) |->
             IF items[i][1] = k THEN <<k, v>> ELSE items[i]]
    ELSE Append(items, <<k, v>>)

\* d.update(other)
RECURSIVE dict_update(_, _)
dict_update(items, other) ==
    IF other = <<>> THEN items
    ELSE dict_update(dict_set(items, Head(other)[1], Head(other)[2]),
                     Tail(other))

\* mutant: the entries of the configuration file overwrite those of the
\* command line
_get_nvram_config_wins(zvargs, channels, env) ==
    LET env1 == IF env.is_none THEN <<>> ELSE env.items
        combined_env == dict_update(zvargs.env, env1)
    IN  NVRAM(<<zvargs.command>> \o zvargs.processed_cmd_args, channels,
              Env(combined_env), NoVerbosity)

\* _get_nvram; zvargs has the fields command (zvargs.args.command),
\* processed_cmd_args and env
_get_nvram(zvargs, channels, env) ==
    LET env1 == IF env.is_none THEN <<>> ELSE env.items
        combined_env == dict_update(env1, zvargs.env)
    IN  NVRAM(<<zvargs.command>> \o zvargs.processed_cmd_args, channels,
              Env(combined_env), NoVerbosity)

----------------------------------------------------------------------------
(* Paths: os.path.join, normpath, abspath and basename of posixpath *)

\* os.path.join(a, b)
path_join(a, b) ==
    IF startswith(b, <<"/">>) THEN b
    ELSE IF a = <<>> \/ a[Len(a)] = "/" THEN a \o b
    ELSE a \o <<"/">> \o b

\* the loop of normpath over the components of the path
RECURSIVE normpath_comps(_, _, _)
normpath_comps(comps, new_comps, initial_slashes) ==
    IF comps = <<>> THEN new_comps
    ELSE LET comp == Head(comps)
             n == Len(new_comps)
         IN  IF comp = <<>> \/ comp = <<".">>
             THEN normpath_comps(Tail(comps), new_comps, initial_slashes)
             ELSE IF \/ comp # <<".", ".">>
                     \/ (initial_slashes = 0 /\ n = 0)
                     \/ (n > 0 /\ new_comps[n] = <<".", ".">>)
             THEN normpath_comps(Tail(comps), Append(new_comps, comp),
                                 initial_slashes)
             ELSE IF n > 0
             THEN normpath_comps(Tail(comps), SubSeq(new_comps, 1, n - 1),
                                 initial_slashes)
             ELSE normpath_comps(Tail(comps), new_comps, initial_slashes)

\* os.path.normpath(p)
normpath(p) ==
    IF p = <<>> THEN <<".">>
    ELSE LET initial_slashes ==
                 IF ~startswith(p, <<"/">>) THEN 0
                 ELSE IF startswith(p, <<"/", "/">>)
                         /\ ~startswith(p, <<"/", "/", "/">>) THEN 2
                 ELSE 1
             comps == normpath_comps(str_split(p, "/", -1), <<>>,
                                     initial_slashes)
             joined_comps == [i \in 1..initial_slashes |-> "/"]
                                 \o str_join(<<"/">>, comps)
         IN  IF joined_comps = <<>> THEN <<".">> ELSE joined_comps

\* os.path.abspath(p) in the working directory cwd of the process
abspath(p, cwd) ==
    IF startswith(p, <<"/">>) THEN normpath(p) ELSE normpath(path_join(cwd, p))

\* os.path.basename(p): what follows the last slash
basename(p) ==
    LET slashes == {i \in 1..Len(p) : p[i] = "/"}
        last == IF slashes = {} THEN 0
                ELSE CHOOSE i \in slashes : \A j \in slashes : j <= i
    IN  SubSeq(p, last + 1, Len(p))

----------------------------------------------------------------------------
(* ZvArgs.process_args, _process_images, _create_fstab_channels *)

\* the characters of [_A-Z0-9]
ENV_NAME_CHARS ==
    {"_", "A", "B", "C", "D", "E", "F", "G", "H", "I", "J", "K", "L", "M",
     "N", "O", "P", "Q", "R", "S", "T", "U", "V", "W", "X", "Y", "Z",
     "0", "1", "2", "3", "4", "5", "6", "7", "8", "9"}

\* the length of the longest prefix of s made of the characters of A
RECURSIVE prefix_len(_, _)
prefix_len(s, A) ==
    IF s = <<>> \/ Head(s) \notin A THEN 0 ELSE 1 + prefix_len(Tail(s), A)

\* ENV_MATCH.match(s) for r'([_A-Z0-9]+)=(.*)': the name is the longest run
\* of name characters at the start, an equals sign follows it, and the
\* value runs to the first newline or to the end, as '.' matches no newline
ENV_MATCH(s) ==
    LET n == prefix_len(s, ENV_NAME_CHARS)
        rest == SubSeq(s, n + 2, Len(s))
        nl == str_find(rest, "\n")
    IN  IF n >= 1 /\ n < Len(s) /\ s[n + 1] = "="
        THEN [matched |-> TRUE, group1 |-> SubSeq(s, 1, n),
              group2 |-> IF nl = 0 THEN rest ELSE SubSeq(rest, 1, nl - 1)]
        ELSE [matched |-> FALSE, group1 |-> <<>>, group2 |-> <<>>]

\* '/dev/%(ordinal)s.%(fn)s' % dict(ordinal=..., fn=...)
device_fmt(ordinal, fn) ==
    concat(<< <<"/", "d", "e", "v", "/">>, py_format(Small(ordinal)), <<".">>, fn >>)

\* the limits are a dict with the keys reads, rbytes, writes, wbytes;
\* Channel(uri, alias, RND_READ_RND_WRITE, **limits)
FileChannel(uri, alias, limits) ==
    ChannelWithLimits(uri, alias, Small(RND_READ_RND_WRITE), limits.reads,
                      limits.rbytes, limits.writes, limits.wbytes)

\* Channel(uri, alias, RND_READ_RND_WRITE, access=..., mount_dir=...,
\*         is_image=True, **limits)
ImageChannel(uri, alias, access, mount_dir, limits) ==
    Channel(uri, alias, Small(RND_READ_RND_WRITE), access, mount_dir, Small(0),
            limits.reads, limits.rbytes, limits.writes, limits.wbytes,
            <<"f", "i", "l", "e">>, TRUE)

\* _process_images: the triples the generator yields, and the exception
\* that ends it, if any.  path is a local of the generator, assigned only
\* for 1, 2 or 3 components: with more it keeps the value of the image
\* before, and without an image before it is unbound
RECURSIVE process_images_from(_, _, _)
process_images_from(zvm_images, path, triples) ==
    IF zvm_images = <<>> THEN [triples |-> triples, exc |-> ""]
    ELSE LET image_split == str_split(Head(zvm_images), ",", -1)
             n == Len(image_split)
             mount_dir == IF n \in {2, 3} THEN image_split[2]
                          ELSE _DEFAULT_MOUNT_DIR
             access == IF n = 3 THEN image_split[3] ELSE _DEFAULT_MOUNT_ACCESS
             path1 == IF n \in {1, 2, 3}
                      THEN [bound |-> TRUE, val |-> image_split[1]] ELSE path
         IN  IF ~path1.bound
             THEN [triples |-> triples, exc |-> "UnboundLocalError"]
             ELSE process_images_from(Tail(zvm_images), path1,
                      Append(triples, <<path1.val, mount_dir, access>>))

_process_images(zvm_images) ==
    process_images_from(zvm_images, [bound |-> FALSE, val |-> <<>>], <<>>)

\* args.zvm_image: None when no --zvm-image is given, else the list of them
NoImages == [is_none |-> TRUE, items |-> <<>>]
Images(items) == [is_none |-> FALSE, items |-> items]

\* ZvArgs.__init__; args is the parsed command line
ZvArgs(command, cmd_args, zvm_image) ==
    [command |-> command, cmd_args |-> cmd_args, zvm_image |-> zvm_image,
     channels |-> <<>>, processed_cmd_args |-> <<>>, env |-> <<>>]

\* mutant: the alias of a marked file is put in front of the processed
\* arguments
process_cmd_arg_alias_first(z, cmd_arg, limits, cwd) ==
    IF startswith(cmd_arg, <<"@">>)
    THEN LET trimmed == Tail(cmd_arg)
             m == ENV_MATCH(trimmed)
             abs_filename == abspath(trimmed, cwd)
             zvm_device == device_fmt(z.channel_ordinal, basename(abs_filename))
         IN  IF m.matched
             THEN [z EXCEPT !.env = dict_set(z.env, m.group1, m.group2)]
             ELSE [z EXCEPT
                     !.processed_cmd_args = <<zvm_device>> \o z.processed_cmd_args,
                     !.channels = Append(z.channels,
                                      FileChannel(abs_filename, zvm_device, limits)),
                     !.channel_ordinal = z.channel_ordinal + 1]
    ELSE [z EXCEPT !.processed_cmd_args = Append(z.processed_cmd_args, cmd_arg)]

\* process_args: one turn of the loop over self.args.cmd_args
process_cmd_arg(z, cmd_arg, limits, cwd) ==
    IF startswith(cmd_arg, <<"@">>)
    THEN LET trimmed == Tail(cmd_arg)
             m == ENV_MATCH(trimmed)
             abs_filename == abspath(trimmed, cwd)
             zvm_device == device_fmt(z.channel_ordinal, basename(abs_filename))
         IN  IF m.matched
             THEN [z EXCEPT !.env = dict_set(z.env, m.group1, m.group2)]
             ELSE [z EXCEPT
                     !.processed_cmd_args = Append(z.processed_cmd_args, zvm_device),
                     !.channels = Append(z.channels,
                                      FileChannel(abs_filename, zvm_device, limits)),
                     !.channel_ordinal = z.channel_ordinal + 1]
    ELSE [z EXCEPT !.processed_cmd_args = Append(z.processed_cmd_args, cmd_arg)]

RECURSIVE process_cmd_args(_, _, _, _)
process_cmd_args(z, cmd_args, limits, cwd) ==
    IF cmd_args = <<>> THEN z
    ELSE process_cmd_args(process_cmd_arg(z, Head(cmd_args), limits, cwd),
                          Tail(cmd_args), limits, cwd)

\* mutant: an image does not advance the channel ordinal
process_image_same_ordinal(z, triple, limits, cwd) ==
    LET abs_filename == abspath(triple[1], cwd)
        alias == device_fmt(z.channel_ordinal, basename(abs_filename))
    IN  [z EXCEPT
           !.channels = Append(z.channels,
               ImageChannel(abs_filename, alias, triple[3], triple[2], limits))]

\* process_args: one turn of the loop over the triples of _process_images
process_image(z, triple, limits, cwd) ==
    LET abs_filename == abspath(triple[1], cwd)
        alias == device_fmt(z.channel_ordinal, basename(abs_filename))
    IN  [z EXCEPT
           !.channels = Append(z.channels,
               ImageChannel(abs_filename, alias, triple[3], triple[2], limits)),
           !.channel_ordinal = z.channel_ordinal + 1]

RECURSIVE process_image_triples(_, _, _, _)
process_image_triples(z, triples, limits, cwd) ==
    IF triples = <<>> THEN z
    ELSE process_image_triples(process_image(z, Head(triples), limits, cwd),
                               Tail(triples), limits, cwd)

\* ZvArgs.process_args(limits, init_channel_ordinal) in the working
\* directory cwd: the ZvArgs afterwards, and the exception raised, if any
process_args(zvargs, limits, init_channel_ordinal, cwd) ==
    LET z0 == [channels |-> zvargs.channels,
               processed_cmd_args |-> zvargs.processed_cmd_args,
               env |-> zvargs.env, channel_ordinal |-> init_channel_ordinal]
        z1 == process_cmd_args(z0, zvargs.cmd_args, limits, cwd)
        images == IF zvargs.zvm_image.is_none
                  THEN [triples |-> <<>>, exc |-> ""]
                  ELSE _process_images(zvargs.zvm_image.items)
        z2 == process_image_triples(z1, images.triples, limits, cwd)
    IN  [zvargs |-> [zvargs EXCEPT !.channels = z2.channels,
                         !.processed_cmd_args = z2.processed_cmd_args,
                         !.env = z2.env],
         exc |-> images.exc]

\* s.split(): the pieces between runs of whitespace
RECURSIVE str_split_ws(_)
str_split_ws(s) ==
    LET t == str_lstrip(s)
        k == IF \E i \in 1..Len(t) : t[i] \in Whitespace
             THEN (CHOOSE i \in 1..Len(t) :
                       t[i] \in Whitespace /\ \A j \in 1..(i - 1) : t[j] \notin Whitespace) - 1
             ELSE Len(t)
    IN  IF t = <<>> THEN <<>>
        ELSE <<SubSeq(t, 1, k)>> \o str_split_ws(SubSeq(t, k + 1, Len(t)))

\* _create_fstab_channels: the loop over zvconfig['fstab'].items(); the
\* unpacking of mp_access.split() raises ValueError unless there are two
\* pieces
RECURSIVE fstab_channels_from(_, _, _, _)
fstab_channels_from(fstab, limits, channel_ordinal, fstab_chans) ==
    IF fstab = <<>> THEN [channels |-> fstab_chans, exc |-> ""]
    ELSE LET host_path == Head(fstab)[1]
             pieces == str_split_ws(Head(fstab)[2])
             alias == device_fmt(channel_ordinal, basename(host_path))
         IN  IF Len(pieces) # 2
             THEN [channels |-> fstab_chans, exc |-> "ValueError"]
             ELSE fstab_channels_from(Tail(fstab), limits, channel_ordinal + 1,
                      Append(fstab_chans,
                          ImageChannel(host_path, alias, pieces[2], pieces[1],
                                       limits)))

_create_fstab_channels(fstab, limits) ==
    fstab_channels_from(fstab, limits, 1, <<>>)

----------------------------------------------------------------------------
(* prepare_channels *)

\* what _get_fd_mode returns
NoMode == [is_none |-> TRUE, val |-> <<>>]
FdMode(m) == [is_none |-> FALSE, val |-> m]

\* fstab_channels=None, or a list
NoChannels == [is_none |-> TRUE, items |-> <<>>]
Channels(items) == [is_none |-> FALSE, items |-> items]

\* '%(wd)s/stdout.%(node)s' % dict(wd=working_dir, node=node)
StreamUri(working_dir, name, node) ==
    concat(<< working_dir, <<"/">>, name, <<".">>, py_format(node) >>)

\* the channels of stdin, stdout and stderr as they are constructed
StdinChannel(limits) ==
    ChannelWithLimits(<<"/", "d", "e", "v", "/", "s", "t", "d", "i", "n">>, <<"/", "d", "e", "v", "/", "s", "t", "d", "i", "n">>, Small(SEQ_READ_SEQ_WRITE),
                      limits.reads, limits.rbytes, Small(0), Small(0))
\* mutant: stdout is given the read limits and no write limits
StdoutChannel_read_limits(working_dir, node, limits) ==
    ChannelWithLimits(StreamUri(working_dir, <<"s", "t", "d", "o", "u", "t">>, node), <<"/", "d", "e", "v", "/", "s", "t", "d", "o", "u", "t">>,
                      Small(SEQ_READ_SEQ_WRITE), limits.reads, limits.rbytes,
                      Small(0), Small(0))

StdoutChannel(working_dir, node, limits) ==
    ChannelWithLimits(StreamUri(working_dir, <<"s", "t", "d", "o", "u", "t">>, node), <<"/", "d", "e", "v", "/", "s", "t", "d", "o", "u", "t">>,
                      Small(SEQ_READ_SEQ_WRITE), Small(0), Small(0),
                      limits.writes, limits.wbytes)
StderrChannel(working_dir, node, limits) ==
    ChannelWithLimits(StreamUri(working_dir, <<"s", "t", "d", "e", "r", "r">>, node), <<"/", "d", "e", "v", "/", "s", "t", "d", "e", "r", "r">>,
                      Small(SEQ_READ_SEQ_WRITE), Small(0), Small(0),
                      limits.writes, limits.wbytes)

\* the mode a stream gets, if any: 'char' for a tty, else what
\* _get_fd_mode returns; probe is [isatty, fd_mode]
StreamMode(probe) == IF probe.isatty THEN FdMode(<<"c", "h", "a", "r">>) ELSE probe.fd_mode

\* the channel object of a stream after its if/else: the mode is assigned
\* to the object the manifest list already holds
StreamChannel(chan, probe) ==
    IF StreamMode(probe).is_none THEN chan
    ELSE [chan EXCEPT !.mode = StreamMode(probe).val]

\* mutant: a stream without a mode is appended to the nvram list as well
StreamInNvram_always(chan, probe) == <<StreamChannel(chan, probe)>>

\* what the if/else of a stream appends to nvram_channels
StreamInNvram(chan, probe) ==
    IF StreamMode(probe).is_none THEN <<>> ELSE <<StreamChannel(chan, probe)>>

\* prepare_channels; probes are those of sys.stdin, sys.stdout, sys.stderr
prepare_channels(zvargs, working_dir, node, limits, fstab_channels, probes) ==
    LET stdin_chan == StdinChannel(limits)
        stdout_chan == StdoutChannel(working_dir, node, limits)
        stderr_chan == StderrChannel(working_dir, node, limits)
        fstab == IF fstab_channels.is_none THEN <<>> ELSE fstab_channels.items
    IN  [manifest_channels |->
             << StreamChannel(stdin_chan, probes[1]),
                StreamChannel(stdout_chan, probes[2]),
                StreamChannel(stderr_chan, probes[3]) >>
                 \o fstab \o zvargs.channels,
         nvram_channels |->
             StreamInNvram(stdin_chan, probes[1])
                 \o StreamInNvram(stdout_chan, probes[2])
                 \o StreamInNvram(stderr_chan, probes[3])
                 \o fstab \o zvargs.channels]

----------------------------------------------------------------------------
(* _extract_nexe *)

\* what tarfile.open(zvm_image) and tf.extractfile(command) do with an
\* image: the archive has the command, lacks it (KeyError), or cannot be
\* opened
TarStates == {"has", "lacks", "unreadable"}

\* the loop of _extract_nexe from the i-th of n images on: the images it
\* has opened and the exception it ends with.  An archive that cannot be
\* opened leaves tf as it was for the finally clause: unbound at the first
\* image, so that tf.close() raises UnboundLocalError, and else the archive
\* before, so that the error of tarfile.open goes on
RECURSIVE extract_nexe_from(_, _, _, _)
extract_nexe_from(tars, n, i, opened) ==
    IF i > n THEN [opened |-> opened, exc |-> "RuntimeError"]
    ELSE LET state == IF i <= Len(tars) THEN tars[i] ELSE "lacks"
         IN  IF state = "has"
             THEN [opened |-> Append(opened, i), exc |-> ""]
             ELSE IF state = "lacks"
             THEN extract_nexe_from(tars, n, i + 1, Append(opened, i))
             ELSE [opened |-> opened,
                   exc |-> IF i = 1 THEN "UnboundLocalError" ELSE "IOError"]

_extract_nexe(tars, n) == extract_nexe_from(tars, n, 1, <<>>)

----------------------------------------------------------------------------
(* Parts of the state a specification does not use *)

EscIdle ==
    /\ esc_value = <<>>
    /\ esc_once = <<>>
    /\ esc_twice = <<>>
    /\ esc_phase = 0

PrcIdle ==
    /\ prc_report = <<>>
    /\ prc_result = [kind |-> "pending", val |-> 0, exc |-> ""]

ManIdle ==
    /\ manifest = [program |-> <<>>, channels |-> <<>>, version |-> PyStr(<<>>),
                   timeout |-> Small(0), memory |-> Small(0), node |-> Small(0),
                   etag |-> Small(0)]
    /\ man_out = [kind |-> "pending", text |-> <<>>, exc |-> ""]
    /\ chan_in = 0
    /\ chan_line = <<>>

RunIdle ==
    /\ pc = "off"
    /\ getrc = FALSE
    /\ rc = 0
    /\ report = <<>>
    /\ process = "none"
    /\ returncode = 0
    /\ child_report = <<>>
    /\ child_todo = <<>>
    /\ pipe = <<>>
    /\ threads = <<>>
    /\ joined = {}
    /\ parsed = FALSE
    /\ dumped = FALSE
    /\ exit_status = 0
    /\ caught = ""
    /\ exc = ""
    /\ interrupts = 0

NvIdle ==
    /\ nv_in = [program_args |-> <<>>, channels |-> <<>>, env |-> <<>>,
                cmd_env |-> <<>>]
    /\ nvram = NVRAM(<<>>, <<>>, NoEnv, NoVerbosity)
    /\ nv_via = "none"
    /\ nv_text = <<>>

RzIdle ==
    /\ rz_in = [fstab |-> <<>>, limits |-> <<>>, cwd |-> <<>>,
                working_dir |-> <<>>, node |-> Small(0), probes |-> <<>>]
    /\ rz_pc = "off"
    /\ rz_zvargs = ZvArgs(<<>>, <<>>, NoImages)
    /\ rz_base = 0
    /\ rz_fstab = <<>>
    /\ rz_manifest_channels = <<>>
    /\ rz_nvram_channels = <<>>
    /\ rz_manifest = <<>>
    /\ rz_exc = ""

FsIdle ==
    /\ rz_env = [save_dir |-> FALSE, existing |-> {}, host_command |-> FALSE,
                 tars |-> <<>>, config_env |-> <<>>]
    /\ rz_dir = FALSE
    /\ rz_files = {}
    /\ rz_log = <<>>
    /\ rz_opened = <<>>
    /\ rz_nvram = NVRAM(<<>>, <<>>, NoEnv, NoVerbosity)

MoreIdle == NvIdle /\ RzIdle /\ FsIdle

----------------------------------------------------------------------------
(* Specification SpecEscape: a caller escapes a value, and escapes the     *)
(* result again                                                            *)

\* the five characters _nvram_escape handles, and two it leaves alone
EscAlphabet == {"\\", "\"", ",", " ", "\n", "a", "x"}

InitEscape ==
    /\ esc_value \in Strings(EscAlphabet, MaxEscLen)
    /\ esc_once = <<>>
    /\ esc_twice = <<>>
    /\ esc_phase = 0
    /\ PrcIdle /\ ManIdle /\ RunIdle /\ MoreIdle

EscapeOnce ==
    /\ esc_phase = 0
    /\ esc_once' = _nvram_escape(esc_value)
    /\ esc_phase' = 1
    /\ UNCHANGED <<esc_value, esc_twice, prcVars, manVars, runVars, moreVars>>

EscapeTwice ==
    /\ esc_phase = 1
    /\ esc_twice' = _nvram_escape(esc_once)
    /\ esc_phase' = 2
    /\ UNCHANGED <<esc_value, esc_once, prcVars, manVars, runVars, moreVars>>

NextEscape == EscapeOnce \/ EscapeTwice

SpecEscape == InitEscape /\ [][NextEscape]_vars

----------------------------------------------------------------------------
(* Claims about _nvram_escape *)

SpecialChars == {"\\", "\"", ",", " ", "\n"}

HasSpecial(s) == \E i \in 1..Len(s) : s[i] \in SpecialChars

\* the escape of one character, written out
EscapeOf(c) ==
    CASE c = "\\" -> <<"\\", "x", "5", "c">>
      [] c = "\"" -> <<"\\", "x", "2", "2">>
      [] c = ","  -> <<"\\", "x", "2", "c">>
      [] c = " "  -> <<"\\", "x", "2", "0">>
      [] c = "\n" -> <<"\\", "x", "0", "a">>
      [] OTHER    -> <<c>>

\* each character of s replaced by its escape, independently of the others
RECURSIVE PerCharacter(_)
PerCharacter(s) ==
    IF s = <<>> THEN <<>> ELSE EscapeOf(Head(s)) \o PerCharacter(Tail(s))

(* C9: for every string s, _nvram_escape(s) contains no double-quote,      *)
(* comma, space or newline; every backslash of the result starts a \xHH    *)
(* escape of one of the five characters; and the result is the             *)
(* concatenation of the escapes of the characters of s, each character     *)
(* taken once (no escape is escaped again).                                *)
C9_EscapeLeavesNoSpecial ==
    esc_phase >= 1 =>
        /\ \A i \in 1..Len(esc_once) : esc_once[i] \notin {"\"", ",", " ", "\n"}
        /\ \A i \in 1..Len(esc_once) :
               esc_once[i] = "\\" =>
                   /\ i + 3 <= Len(esc_once)
                   /\ SubSeq(esc_once, i, i + 3) \in {EscapeOf(c) : c \in SpecialChars}
        /\ esc_once = PerCharacter(esc_value)

\* a value with a backslash and a comma has been escaped
C9_Witness ==
    /\ esc_phase >= 1
    /\ \E i, j \in 1..Len(esc_value) : esc_value[i] = "\\" /\ esc_value[j] = ","

(* C10: _nvram_escape is not idempotent: for every s with at least one of  *)
(* the five characters, escaping the escaped value gives a different       *)
(* string; for an s with none of them both results equal s.                *)
C10_EscapeNotIdempotent ==
    esc_phase = 2 =>
        IF HasSpecial(esc_value)
        THEN esc_twice # esc_once
        ELSE esc_once = esc_value /\ esc_twice = esc_value

\* a value with a special character has been escaped twice
C10_Witness ==
    /\ esc_phase = 2
    /\ HasSpecial(esc_value)
    /\ Len(esc_twice) > Len(esc_once)

----------------------------------------------------------------------------
(* Specification SpecParse: parse_return_code is called on a report        *)

\* decimal integers, the 'user return code = N' form, and fields that are
\* neither
ParseFields == {
    <<"O", "K">>,
    <<"0">>,
    <<"-", "1", "2">>,
    USER_RETURN_CODE \o <<"7">>,
    <<>> }

RECURSIVE join_lines(_)
join_lines(fs) ==
    IF Len(fs) = 1 THEN fs[1] ELSE fs[1] \o <<"\n">> \o join_lines(Tail(fs))

\* the reports of one to MaxFields newline-separated fields
ParseReports ==
    {join_lines(fs) : fs \in UNION {[1..k -> ParseFields] : k \in 1..MaxFields}}

InitParse ==
    /\ prc_report \in ParseReports
    /\ prc_result = [kind |-> "pending", val |-> 0, exc |-> ""]
    /\ EscIdle /\ ManIdle /\ RunIdle /\ MoreIdle

ParseReturnCode ==
    /\ prc_result.kind = "pending"
    /\ prc_result' = parse_return_code(prc_report)
    /\ UNCHANGED <<prc_report, escVars, manVars, runVars, moreVars>>

NextParse == ParseReturnCode

SpecParse == InitParse /\ [][NextParse]_vars

----------------------------------------------------------------------------
(* Claims about parse_return_code *)

\* the positions of the newlines of s
Newlines(s) == {i \in 1..Len(s) : s[i] = "\n"}

\* the n-th newline-delimited field of s, which exists when s has at least
\* n - 1 newlines
HasField(s, n) == Cardinality(Newlines(s)) >= n - 1
NthNewline(s, n) ==
    CHOOSE i \in Newlines(s) : Cardinality({j \in Newlines(s) : j < i}) = n - 1
NthField(s, n) ==
    LET from == IF n = 1 THEN 1 ELSE NthNewline(s, n - 1) + 1
        to == IF Cardinality(Newlines(s)) >= n THEN NthNewline(s, n) - 1 ELSE Len(s)
    IN  SubSeq(s, from, to)

\* a decimal integer: an optional minus sign and one or more digits
IsDecimal(f) ==
    LET body == IF f # <<>> /\ Head(f) = "-" THEN Tail(f) ELSE f
    IN  body # <<>> /\ \A i \in 1..Len(body) : body[i] \in
            {"0", "1", "2", "3", "4", "5", "6", "7", "8", "9"}
RECURSIVE NatOf(_)
NatOf(ds) ==
    IF ds = <<>> THEN 0
    ELSE LET last == ds[Len(ds)]
             v == CASE last = "0" -> 0 [] last = "1" -> 1 [] last = "2" -> 2
                    [] last = "3" -> 3 [] last = "4" -> 4 [] last = "5" -> 5
                    [] last = "6" -> 6 [] last = "7" -> 7 [] last = "8" -> 8
                    [] last = "9" -> 9
         IN  10 * NatOf(SubSeq(ds, 1, Len(ds) - 1)) + v
DecimalOf(f) == IF Head(f) = "-" THEN 0 - NatOf(Tail(f)) ELSE NatOf(f)

(* C5: parse_return_code(report) returns N for every report whose third    *)
(* newline-delimited field is the decimal integer N or the string          *)
(* 'user return code = N', whatever the other fields are.                  *)
C5_ParseReturnsThirdField ==
    (prc_result.kind # "pending" /\ HasField(prc_report, 3)) =>
        LET third == NthField(prc_report, 3)
            n == SubSeq(third, Len(USER_RETURN_CODE) + 1, Len(third))
        IN  /\ IsDecimal(third) => prc_result = Return(DecimalOf(third))
            /\ (startswith(third, USER_RETURN_CODE) /\ IsDecimal(n))
                   => prc_result = Return(DecimalOf(n))

\* 'OK\nOK\nuser return code = 7\nOK\n' has been parsed
C5_Witness ==
    /\ prc_result = Return(7)
    /\ prc_report = join_lines(<< <<"O", "K">>, <<"O", "K">>,
                                  USER_RETURN_CODE \o <<"7">>, <<"O", "K">>, <<>> >>)

\* a report of four or more fields with a decimal third field has been parsed
C5_WitnessDecimal ==
    /\ prc_result = Return(-12)
    /\ HasField(prc_report, 4)
    /\ NthField(prc_report, 3) = <<"-", "1", "2">>

----------------------------------------------------------------------------
(* Specification SpecManifest: a Manifest is built from channels and       *)
(* dumped; single channels are dumped with to_manifest                     *)

\* the channels a manifest is drawn from: stdin with its write limits at 0,
\* a file with the default limits, a file whose name holds a comma with
\* the limits given as strings (as read from zvsh.cfg), a tar image with
\* small limits
ChannelPool == {
    ChannelWithLimits(<<"/", "d", "e", "v", "/", "s", "t", "d", "i", "n">>,
                      <<"/", "d", "e", "v", "/", "s", "t", "d", "i", "n">>,
                      Small(SEQ_READ_SEQ_WRITE),
                      PyInt(READS_DEFAULT), PyInt(RBYTES_DEFAULT), Small(0), Small(0)),
    ChannelDefault(<<"/", "a">>, <<"/", "d", "e", "v", "/", "1", ".", "a">>,
                   Small(RND_READ_RND_WRITE)),
    ChannelWithLimits(<<"/", "a", ",", "b">>,
                      <<"/", "d", "e", "v", "/", "2", ".", "a", ",", "b">>,
                      Small(RND_READ_RND_WRITE),
                      PyStr(<<"4", "2", "9", "4", "9", "6", "7", "2", "9", "6">>),
                      PyStr(<<"4", "2", "9", "4", "9", "6", "7", "2", "9", "6">>),
                      PyStr(<<"1", "0">>), PyStr(<<"1", "0">>)),
    Channel(<<"/", "t">>, <<"/", "d", "e", "v", "/", "3", ".", "t">>,
            Small(RND_READ_RND_WRITE), <<"r", "w">>, <<"/", "l">>, Small(1),
            Small(1024), Small(65535), PyInt(<<0, 1>>), PyInt(<<1, 1>>),
            <<"f", "i", "l", "e">>, TRUE) }

Manifests ==
    [program : {<<"/", "n">>, <<"b", "o", "o", "t", ".", "1">>},
     channels : UNION {[1..k -> ChannelPool] : k \in 0..MaxChannels},
     version : {PyStr(<<"2", "0", "1", "3", "0", "6", "1", "1">>)},
     timeout : {Small(50)},
     memory : {PyInt(<<0, 0, 1>>), PyStr(<<"1", "0", "2", "4">>)},
     node : {Small(1), Small(2)},
     etag : {Small(0), Small(1)}]

InitManifest ==
    /\ manifest \in Manifests
    /\ man_out = [kind |-> "pending", text |-> <<>>, exc |-> ""]
    /\ chan_in = 0
    /\ chan_line = <<>>
    /\ EscIdle /\ PrcIdle /\ RunIdle /\ MoreIdle

ManifestDumps ==
    /\ man_out.kind = "pending"
    /\ man_out' = Manifest_dumps(manifest)
    /\ UNCHANGED <<manifest, chan_in, chan_line, escVars, prcVars, runVars, moreVars>>

ChannelToManifest ==
    /\ chan_in = 0
    /\ \E i \in 1..Len(manifest.channels) :
           /\ chan_in' = i
           /\ chan_line' = Channel_to_manifest(manifest.channels[i])
    /\ UNCHANGED <<manifest, man_out, escVars, prcVars, runVars, moreVars>>

NextManifest == ManifestDumps \/ ChannelToManifest

SpecManifest == InitManifest /\ [][NextManifest]_vars

----------------------------------------------------------------------------
(* Claims about Manifest.dumps and Channel.to_manifest *)

(* C6: Manifest.dumps raises the configuration error (RuntimeError)        *)
(* exactly when the channel sequence is empty: with at least one channel   *)
(* it returns text, with none it raises and returns no text.               *)
C6_DumpsRaisesIffNoChannels ==
    man_out.kind # "pending" =>
        /\ man_out.kind = "raise" <=> manifest.channels = <<>>
        /\ man_out.kind = "raise" => man_out.exc = "RuntimeError" /\ man_out.text = <<>>
        /\ man_out.kind = "return" => man_out.text # <<>> /\ man_out.exc = ""

\* a manifest without channels has been dumped
C6_Witness ==
    /\ man_out.kind = "raise"
    /\ manifest.channels = <<>>

(* C7: for every Manifest with n >= 1 channels (whose values hold no       *)
(* newline), Manifest.dumps returns exactly 5 header lines in the order    *)
(* Node, Version, Timeout, Memory (as 'memory,etag'), Program, followed by *)
(* exactly n lines, the i-th of which is to_manifest of the i-th channel.  *)
C7_DumpsHeaderThenChannels ==
    man_out.kind = "return" =>
        LET text == man_out.text
            n == Len(manifest.channels)
        IN  /\ Cardinality(Newlines(text)) + 1 = 5 + n
            /\ NthField(text, 1) = <<"N", "o", "d", "e", " ", "=", " ">>
                                       \o py_format(manifest.node)
            /\ NthField(text, 2) = <<"V", "e", "r", "s", "i", "o", "n", " ", "=", " ">>
                                       \o py_format(manifest.version)
            /\ NthField(text, 3) = <<"T", "i", "m", "e", "o", "u", "t", " ", "=", " ">>
                                       \o py_format(manifest.timeout)
            /\ NthField(text, 4) = <<"M", "e", "m", "o", "r", "y", " ", "=", " ">>
                                       \o py_format(manifest.memory) \o <<",">>
                                       \o py_format(manifest.etag)
            /\ NthField(text, 5) = <<"P", "r", "o", "g", "r", "a", "m", " ", "=", " ">>
                                       \o manifest.program
            /\ \A i \in 1..n :
                   NthField(text, 5 + i) = Channel_to_manifest(manifest.channels[i])

\* a manifest of two different channels has been dumped
C7_Witness ==
    /\ man_out.kind = "return"
    /\ Len(manifest.channels) = 2
    /\ manifest.channels[1] # manifest.channels[2]

\* the positions of the commas of s
Commas(s) == {i \in 1..Len(s) : s[i] = ","}
NthComma(s, n) ==
    CHOOSE i \in Commas(s) : Cardinality({j \in Commas(s) : j < i}) = n - 1
\* the n-th comma-separated field of s, for 1 <= n <= number of commas + 1
CommaField(s, n) ==
    LET from == IF n = 1 THEN 1 ELSE NthComma(s, n - 1) + 1
        to == IF Cardinality(Commas(s)) >= n THEN NthComma(s, n) - 1 ELSE Len(s)
    IN  SubSeq(s, from, to)

\* the int a string of decimal digits denotes, as limbs: n * 10 + d
RECURSIVE limbs_muladd(_, _, _)
limbs_muladd(n, k, carry) ==
    IF n = <<>> THEN (IF carry = 0 THEN <<>> ELSE <<carry>>)
    ELSE LET cur == n[1] * k + carry
         IN  <<cur % LimbBase>> \o limbs_muladd(Tail(n), k, cur \div LimbBase)
RECURSIVE LimbsOf(_)
LimbsOf(ds) ==
    IF ds = <<>> THEN <<>>
    ELSE limbs_muladd(LimbsOf(SubSeq(ds, 1, Len(ds) - 1)), 10, NatOf(<<ds[Len(ds)]>>))

\* a field shows the value v: the same number for an int, the same text
\* for a str
Shows(f, v) ==
    IF v.t = "int"
    THEN IsDecimal(f) /\ Head(f) # "-" /\ LimbsOf(f) = v.i
    ELSE f = v.s

(* C8: for all Channel values the line of Channel.to_manifest has exactly  *)
(* 8 comma-separated fields after 'Channel = ' (hostURI, alias,            *)
(* accessPattern, etagFlag, reads, rbytes, writes, wbytes), and the four   *)
(* limits appear as the decimal values the channel was constructed with.   *)
C8_EightFieldsLimitsUnchanged ==
    chan_in # 0 =>
        LET c == manifest.channels[chan_in]
            prefix == <<"C", "h", "a", "n", "n", "e", "l", " ", "=", " ">>
            rest == SubSeq(chan_line, Len(prefix) + 1, Len(chan_line))
        IN  /\ startswith(chan_line, prefix)
            /\ Cardinality(Commas(rest)) + 1 = 8
            /\ CommaField(rest, 1) = c.uri
            /\ CommaField(rest, 2) = c.alias
            /\ Shows(CommaField(rest, 3), c.access_type)
            /\ Shows(CommaField(rest, 4), c.etag)
            /\ Shows(CommaField(rest, 5), c.reads)
            /\ Shows(CommaField(rest, 6), c.rbytes)
            /\ Shows(CommaField(rest, 7), c.writes)
            /\ Shows(CommaField(rest, 8), c.wbytes)

----------------------------------------------------------------------------
(* ZvRunner: run() in the main thread (pc), the ZeroVM child process, and  *)
(* the four daemon threads started with spawn                              *)

\* self.rc in ZvRunner.__init__
INITIAL_RC == -255

Readers == {"stdin_reader", "err_reader", "rep_reader", "writer"}
\* the threads that copy stdin, stderr and stdout
Relays == {"stdin_reader", "err_reader", "writer"}

\* the positions of run() inside the try block, and those of its finally
\* block
TryPcs == {"run", "spawn", "wait", "join_rep", "parse", "check",
           "join_writer", "join_err"}
FinallyPcs == {"finally", "fin_wait", "print_error", "exit"}

notRun == <<escVars, prcVars, manVars, moreVars>>

\* self.process = Popen(self.command, stdin=PIPE, stdout=PIPE)
Popen ==
    /\ pc = "run"
    /\ process' = "running"
    /\ child_todo' = child_report
    /\ pc' = "spawn"
    /\ UNCHANGED <<getrc, rc, report, returncode, child_report, pipe, threads,
                   joined, parsed, dumped, exit_status, caught, exc, interrupts,
                   notRun>>

\* Popen raises (the zerovm binary is missing): except ...: pass
PopenFails ==
    /\ pc = "run"
    /\ caught' = "OSError"
    /\ pc' = "finally"
    /\ UNCHANGED <<getrc, rc, report, process, returncode, child_report,
                   child_todo, pipe, threads, joined, parsed, dumped,
                   exit_status, exc, interrupts, notRun>>

\* the four self.spawn(True, ...) calls
Spawn ==
    /\ pc = "spawn"
    /\ threads' = [t \in Readers |-> "running"]
    /\ pc' = "wait"
    /\ UNCHANGED <<getrc, rc, report, process, returncode, child_report,
                   child_todo, pipe, joined, parsed, dumped, exit_status,
                   caught, exc, interrupts, notRun>>

\* the child writes the next line of its report to its stdout pipe
ChildWrite ==
    /\ process = "running"
    /\ child_todo # <<>>
    /\ LET nl == str_find(child_todo, "\n")
           n == IF nl = 0 THEN Len(child_todo) ELSE nl
       IN  /\ pipe' = pipe \o SubSeq(child_todo, 1, n)
           /\ child_todo' = SubSeq(child_todo, n + 1, Len(child_todo))
    /\ UNCHANGED <<pc, getrc, rc, report, process, returncode, child_report,
                   threads, joined, parsed, dumped, exit_status, caught, exc,
                   interrupts, notRun>>

\* Popen.returncode of a terminated child: its exit status, or -N when
\* signal N killed it
ReturnCodes == {0, 1, -9}

\* the child terminates, which closes its end of the pipe
ChildExit ==
    /\ process = "running"
    /\ child_todo = <<>>
    /\ process' = "terminated"
    /\ returncode' \in ReturnCodes
    /\ UNCHANGED <<pc, getrc, rc, report, child_report, child_todo, pipe,
                   threads, joined, parsed, dumped, exit_status, caught, exc,
                   interrupts, notRun>>

\* report_reader: self.report += line, for a non-empty read
ReportRead ==
    /\ threads # <<>>
    /\ threads["rep_reader"] = "running"
    /\ pipe # <<>>
    /\ report' = report \o pipe
    /\ pipe' = <<>>
    /\ UNCHANGED <<pc, getrc, rc, process, returncode, child_report, child_todo,
                   threads, joined, parsed, dumped, exit_status, caught, exc,
                   interrupts, notRun>>

\* report_reader: read() returns '' at the end of the pipe, the loop ends
ReportEof ==
    /\ threads # <<>>
    /\ threads["rep_reader"] = "running"
    /\ pipe = <<>>
    /\ process = "terminated"
    /\ threads' = [threads EXCEPT !["rep_reader"] = "done"]
    /\ UNCHANGED <<pc, getrc, rc, report, process, returncode, child_report,
                   child_todo, pipe, joined, parsed, dumped, exit_status,
                   caught, exc, interrupts, notRun>>

\* stdin_reader, stderr_reader or stdout_write returns (its source is
\* exhausted or its I/O fails); it may also never return
RelayEnds ==
    /\ threads # <<>>
    /\ \E t \in Relays :
           /\ threads[t] = "running"
           /\ threads' = [threads EXCEPT ![t] = "done"]
    /\ UNCHANGED <<pc, getrc, rc, report, process, returncode, child_report,
                   child_todo, pipe, joined, parsed, dumped, exit_status,
                   caught, exc, interrupts, notRun>>

\* what a thread is once its function is over: it has returned at the end
\* of its source, it has returned after an IOError it caught, or an IOError
\* nothing in it catches has ended it
Ended == {"done", "silenced", "died"}

\* a read or write of a relay raises IOError: stdin_reader and
\* stderr_reader have their loops in try ... except IOError: pass and go
\* on to close their file; stdout_write has no try, the exception leaves
\* the function and ends the thread
RelayIOError ==
    /\ threads # <<>>
    /\ \E t \in Relays :
           /\ threads[t] = "running"
           /\ threads' = [threads EXCEPT
                             ![t] = IF t = "writer" THEN "died" ELSE "silenced"]
    /\ UNCHANGED <<pc, getrc, rc, report, process, returncode, child_report,
                   child_todo, pipe, joined, parsed, dumped, exit_status,
                   caught, exc, interrupts, notRun>>

\* self.process.wait() in the try block
Wait ==
    /\ pc = "wait"
    /\ process = "terminated"
    /\ pc' = "join_rep"
    /\ UNCHANGED <<getrc, rc, report, process, returncode, child_report,
                   child_todo, pipe, threads, joined, parsed, dumped,
                   exit_status, caught, exc, interrupts, notRun>>

\* mutant: the report is parsed without waiting for report_reader
JoinRepReader_no_wait ==
    /\ pc = "join_rep"
    /\ joined' = joined \cup {"rep_reader"}
    /\ pc' = "parse"
    /\ UNCHANGED <<getrc, rc, report, process, returncode, child_report,
                   child_todo, pipe, threads, parsed, dumped, exit_status,
                   caught, exc, interrupts, notRun>>

\* rep_reader.join()
JoinRepReader ==
    /\ pc = "join_rep"
    /\ threads["rep_reader"] = "done"
    /\ joined' = joined \cup {"rep_reader"}
    /\ pc' = "parse"
    /\ UNCHANGED <<getrc, rc, report, process, returncode, child_report,
                   child_todo, pipe, threads, parsed, dumped, exit_status,
                   caught, exc, interrupts, notRun>>

\* mutant: a report that cannot be parsed gives the return code 0
Parse_failure_gives_zero ==
    /\ pc = "parse"
    /\ LET r == parse_return_code(report)
       IN  IF r.kind = "return"
           THEN /\ rc' = r.val
                /\ parsed' = TRUE
                /\ pc' = "check"
                /\ UNCHANGED caught
           ELSE /\ caught' = r.exc
                /\ pc' = "finally"
                /\ rc' = 0
                /\ UNCHANGED parsed
    /\ UNCHANGED <<getrc, report, process, returncode, child_report, child_todo,
                   pipe, threads, joined, dumped, exit_status, exc, interrupts,
                   notRun>>

\* self.rc = parse_return_code(self.report); an IndexError or ValueError
\* is caught by except ...: pass
Parse ==
    /\ pc = "parse"
    /\ LET r == parse_return_code(report)
       IN  IF r.kind = "return"
           THEN /\ rc' = r.val
                /\ parsed' = TRUE
                /\ pc' = "check"
                /\ UNCHANGED caught
           ELSE /\ caught' = r.exc
                /\ pc' = "finally"
                /\ UNCHANGED <<rc, parsed>>
    /\ UNCHANGED <<getrc, report, process, returncode, child_report, child_todo,
                   pipe, threads, joined, dumped, exit_status, exc, interrupts,
                   notRun>>

\* mutant: the relays are joined whatever the child's exit code
CheckReturnCode_always_joins ==
    /\ pc = "check"
    /\ pc' = "join_writer"
    /\ UNCHANGED <<getrc, rc, report, process, returncode, child_report,
                   child_todo, pipe, threads, joined, parsed, dumped,
                   exit_status, caught, exc, interrupts, notRun>>

\* if self.process.returncode == 0:
CheckReturnCode ==
    /\ pc = "check"
    /\ pc' = IF returncode = 0 THEN "join_writer" ELSE "finally"
    /\ UNCHANGED <<getrc, rc, report, process, returncode, child_report,
                   child_todo, pipe, threads, joined, parsed, dumped,
                   exit_status, caught, exc, interrupts, notRun>>

\* writer.join()
JoinWriter ==
    /\ pc = "join_writer"
    /\ threads["writer"] \in Ended
    /\ joined' = joined \cup {"writer"}
    /\ pc' = "join_err"
    /\ UNCHANGED <<getrc, rc, report, process, returncode, child_report,
                   child_todo, pipe, threads, parsed, dumped, exit_status,
                   caught, exc, interrupts, notRun>>

\* err_reader.join()
JoinErrReader ==
    /\ pc = "join_err"
    /\ threads["err_reader"] \in Ended
    /\ joined' = joined \cup {"err_reader"}
    /\ pc' = "finally"
    /\ UNCHANGED <<getrc, rc, report, process, returncode, child_report,
                   child_todo, pipe, threads, parsed, dumped, exit_status,
                   caught, exc, interrupts, notRun>>

\* KeyboardInterrupt inside the try block: except ...: pass
Interrupt ==
    /\ pc \in TryPcs
    /\ interrupts < MaxInterrupts
    /\ interrupts' = interrupts + 1
    /\ caught' = "KeyboardInterrupt"
    /\ pc' = "finally"
    /\ UNCHANGED <<getrc, rc, report, process, returncode, child_report,
                   child_todo, pipe, threads, joined, parsed, dumped,
                   exit_status, exc, notRun>>

\* KeyboardInterrupt inside the finally block: nothing catches it
InterruptFinally ==
    /\ pc \in FinallyPcs
    /\ interrupts < MaxInterrupts
    /\ interrupts' = interrupts + 1
    /\ exc' = "KeyboardInterrupt"
    /\ pc' = "raised"
    /\ UNCHANGED <<getrc, rc, report, process, returncode, child_report,
                   child_todo, pipe, threads, joined, parsed, dumped,
                   exit_status, caught, notRun>>

\* finally: if self.process:
Finally ==
    /\ pc = "finally"
    /\ pc' = IF process # "none" THEN "fin_wait" ELSE "exit"
    /\ UNCHANGED <<getrc, rc, report, process, returncode, child_report,
                   child_todo, pipe, threads, joined, parsed, dumped,
                   exit_status, caught, exc, interrupts, notRun>>

\* self.process.wait(); if self.process.returncode > 0:
FinallyWait ==
    /\ pc = "fin_wait"
    /\ process = "terminated"
    /\ pc' = IF returncode > 0 THEN "print_error" ELSE "exit"
    /\ UNCHANGED <<getrc, rc, report, process, returncode, child_report,
                   child_todo, pipe, threads, joined, parsed, dumped,
                   exit_status, caught, exc, interrupts, notRun>>

\* self.print_error(self.process.returncode)
PrintError ==
    /\ pc = "print_error"
    /\ dumped' = TRUE
    /\ pc' = "exit"
    /\ UNCHANGED <<getrc, rc, report, process, returncode, child_report,
                   child_todo, pipe, threads, joined, parsed, exit_status,
                   caught, exc, interrupts, notRun>>

\* print_error raises (a file of the working directory cannot be read, or
\* the error stream cannot be written): nothing catches it
PrintErrorFails ==
    /\ pc = "print_error"
    /\ exc' = "IOError"
    /\ pc' = "raised"
    /\ UNCHANGED <<getrc, rc, report, process, returncode, child_report,
                   child_todo, pipe, threads, joined, parsed, dumped,
                   exit_status, caught, interrupts, notRun>>

\* mutant: raw mode is ignored
Exit_ignores_getrc ==
    /\ pc = "exit"
    /\ exit_status' = rc
    /\ pc' = "exited"
    /\ UNCHANGED <<getrc, rc, report, process, returncode, child_report,
                   child_todo, pipe, threads, joined, parsed, dumped,
                   caught, exc, interrupts, notRun>>

\* rc = self.rc; if self.getrc: rc = self.process.returncode; sys.exit(rc)
\* (self.process is None when Popen failed: AttributeError)
Exit ==
    /\ pc = "exit"
    /\ IF getrc /\ process = "none"
       THEN /\ exc' = "AttributeError"
            /\ pc' = "raised"
            /\ UNCHANGED exit_status
       ELSE /\ exit_status' = IF getrc THEN returncode ELSE rc
            /\ pc' = "exited"
            /\ UNCHANGED exc
    /\ UNCHANGED <<getrc, rc, report, process, returncode, child_report,
                   child_todo, pipe, threads, joined, parsed, dumped,
                   caught, interrupts, notRun>>

----------------------------------------------------------------------------
(* Specification SpecRun: one ZvRunner.run() from construction to exit     *)

\* the reports the child may write: 'OK\nOK\n0\n', one whose third line is
\* 'user return code = 7', an empty one, and one whose third line is no
\* return code
RunReports == {
    join_lines(<< <<"O", "K">>, <<"O", "K">>, <<"0">>, <<>> >>),
    join_lines(<< <<"O", "K">>, <<"O", "K">>, USER_RETURN_CODE \o <<"7">>, <<>> >>),
    <<>>,
    join_lines(<< <<"O", "K">>, <<"O", "K">>, <<"O", "K">> >>) }

InitRun ==
    /\ pc = "run"
    /\ getrc \in BOOLEAN
    /\ rc = INITIAL_RC
    /\ report = <<>>
    /\ process = "none"
    /\ returncode = 0
    /\ child_report \in RunReports
    /\ child_todo = <<>>
    /\ pipe = <<>>
    /\ threads = [t \in Readers |-> "idle"]
    /\ joined = {}
    /\ parsed = FALSE
    /\ dumped = FALSE
    /\ exit_status = 0
    /\ caught = ""
    /\ exc = ""
    /\ interrupts = 0
    /\ EscIdle /\ PrcIdle /\ ManIdle /\ MoreIdle

NextRun ==
    \/ Popen \/ PopenFails \/ Spawn
    \/ ChildWrite \/ ChildExit
    \/ ReportRead \/ ReportEof \/ RelayEnds \/ RelayIOError
    \/ Wait \/ JoinRepReader \/ Parse \/ CheckReturnCode
    \/ JoinWriter \/ JoinErrReader
    \/ Interrupt \/ InterruptFinally
    \/ Finally \/ FinallyWait \/ PrintError \/ PrintErrorFails \/ Exit

SpecRun == InitRun /\ [][NextRun]_vars

----------------------------------------------------------------------------
(* Claims about ZvRunner.run *)

(* C1: when run exits after a run whose child was launched and whose       *)
(* report was parsed, the status it exits with is the return code parsed   *)
(* from the report when getrc is off, and the child's own exit code when   *)
(* getrc is on, whatever the report holds.                                 *)
C1_ExitStatus ==
    (pc = "exited" /\ process # "none" /\ parsed) =>
        exit_status = IF getrc THEN returncode
                      ELSE parse_return_code(report).val

\* run exited in raw mode with an exit code that differs from the parsed
\* return code
C1_Witness ==
    /\ pc = "exited"
    /\ parsed
    /\ getrc
    /\ returncode # parse_return_code(report).val

(* C2: the report is parsed only after the child has terminated and        *)
(* report_reader has been joined, so the buffer parsed holds every byte    *)
(* the child wrote to its stdout.                                          *)
C2_ParseAfterJoin ==
    pc = "parse" =>
        /\ process = "terminated"
        /\ threads["rep_reader"] = "done"
        /\ "rep_reader" \in joined
        /\ child_todo = <<>>
        /\ pipe = <<>>
        /\ report = child_report

\* run is about to parse a report of three lines
C2_Witness ==
    /\ pc = "parse"
    /\ Cardinality(Newlines(report)) = 3

(* C3: whenever the child's exit code is not 0 the runner has written the  *)
(* diagnostic dump when it exits, and when the exit code is 0 it has not.  *)
C3_DumpIffNonZero ==
    (pc = "exited" /\ process = "terminated") => (dumped <=> returncode # 0)

(* C4, as claimed: the coordinator joins the stdout and stderr relays if   *)
(* and only if the child's exit code is 0.                                 *)
C4_JoinIffZero ==
    (pc = "exited" /\ process = "terminated") =>
        ({"writer", "err_reader"} \subseteq joined <=> returncode = 0)

(* C4, amended: the coordinator joins the stdout and stderr relays only if *)
(* the child's exit code is 0 and the report was parsed; it joins both     *)
(* when the exit code is 0, the report was parsed and no interrupt         *)
(* arrived; on a non-zero exit code it reaches its exit without waiting    *)
(* for either relay.                                                       *)
C4_JoinOnlyAfterCleanParse ==
    /\ pc \in {"join_writer", "join_err"} =>
           process = "terminated" /\ returncode = 0 /\ parsed
    /\ joined \cap {"writer", "err_reader"} # {} =>
           process = "terminated" /\ returncode = 0 /\ parsed
    /\ (pc = "exited" /\ process = "terminated" /\ returncode = 0
            /\ parsed /\ interrupts = 0) =>
           {"writer", "err_reader"} \subseteq joined

\* run exited after a non-zero exit code while both relays were still
\* running
C4_Witness ==
    /\ pc = "exited"
    /\ returncode # 0
    /\ parsed
    /\ threads["writer"] = "running"
    /\ threads["err_reader"] = "running"

----------------------------------------------------------------------------
(* Specification SpecNvram: a descriptor is built, by NVRAM(...) or by     *)
(* _get_nvram, and written with dumps                                      *)

\* argument tokens: with a backslash, and with the other escaped characters
NvTokens == { <<"\\", "x", "2", "c">>, <<"a", " ", "b", ",", "\"", "\n">> }

\* [command] + processed_cmd_args
NvArgVectors == {<<<<"p">>>> \o rest : rest \in Strings(NvTokens, MaxArgs)}

NvChannelPool ==
    { Channel(<<"/", "d", "e", "v", "/", "s", "t", "d", "i", "n">>, <<"/", "d", "e", "v", "/", "s", "t", "d", "i", "n">>, Small(SEQ_READ_SEQ_WRITE),
              _DEFAULT_MOUNT_ACCESS, _DEFAULT_MOUNT_DIR, Small(0),
              Small(16), Small(32), Small(0), Small(0), <<"c", "h", "a", "r">>, FALSE),
      Channel(<<"/", "h", "/", "f">>, <<"/", "d", "e", "v", "/", "1", ".", "f">>, Small(RND_READ_RND_WRITE),
              _DEFAULT_MOUNT_ACCESS, _DEFAULT_MOUNT_DIR, Small(0),
              Small(16), Small(32), Small(64), Small(128), <<"f", "i", "l", "e">>, FALSE),
      Channel(<<"/", "h", "/", "u", ".", "t", "a", "r">>, <<"/", "d", "e", "v", "/", "2", ".", "u", ".", "t", "a", "r">>, Small(RND_READ_RND_WRITE),
              <<"r", "o">>, <<"/", "u", "s", "r">>, Small(0),
              Small(16), Small(32), Small(64), Small(128), <<"f", "i", "l", "e">>, TRUE),
      Channel(<<"/", "h", "/", "e", ".", "t", "a", "r">>, <<"/", "d", "e", "v", "/", "3", ".", "e", ".", "t", "a", "r">>, Small(RND_READ_RND_WRITE),
              <<"r", "w">>, <<"/", "e", "t", "c">>, Small(0),
              Small(16), Small(32), Small(64), Small(128), <<"f", "i", "l", "e">>, TRUE) }

\* the [env] section of the configuration file, and the environment the
\* command line declares; both name FOO
NvConfigEnvs == { <<>>, << <<<<"L", "A", "N", "G">>, <<"e", "n", " ", "U", "S">>>> >>,
                  << <<<<"F", "O", "O">>, <<"1", "\n", "2">>>>, <<<<"L", "A", "N", "G">>, <<"e", "n", " ", "U", "S">>>> >> }
NvCmdEnvs == { <<>>, << <<<<"_", "B">>, <<"\\", "\"", "x", " ", ",">>>>, <<<<"F", "O", "O">>, <<"b">>>> >> }

InitNvram ==
    /\ nv_in \in [program_args : NvArgVectors,
                  channels : Strings(NvChannelPool, MaxChannels),
                  env : NvConfigEnvs, cmd_env : NvCmdEnvs]
    /\ nvram = NVRAM(<<>>, <<>>, NoEnv, NoVerbosity)
    /\ nv_via = "none"
    /\ nv_text = <<>>
    /\ EscIdle /\ PrcIdle /\ ManIdle /\ RunIdle /\ RzIdle /\ FsIdle

\* NVRAM(program_args, channels, env=..., debug_verbosity=...)
NewNVRAM ==
    /\ nv_via = "none"
    /\ \E e \in {NoEnv, Env(nv_in.env)} :
       \E d \in {NoVerbosity, Verbosity(Small(3))} :
           nvram' = NVRAM(nv_in.program_args, nv_in.channels, e, d)
    /\ nv_via' = "NVRAM"
    /\ UNCHANGED <<nv_in, nv_text, escVars, prcVars, manVars, runVars, rzVars, fsVars>>

\* run_zerovm: nvram = _get_nvram(zvargs, nvram_channels, env=zvconfig['env'])
GetNvram ==
    /\ nv_via = "none"
    /\ nvram' = _get_nvram([command |-> Head(nv_in.program_args),
                            processed_cmd_args |-> Tail(nv_in.program_args),
                            env |-> nv_in.cmd_env],
                           nv_in.channels, Env(nv_in.env))
    /\ nv_via' = "_get_nvram"
    /\ UNCHANGED <<nv_in, nv_text, escVars, prcVars, manVars, runVars, rzVars, fsVars>>

\* nvram.dumps()
NvramDumps ==
    /\ nv_via # "none"
    /\ nv_text = <<>>
    /\ nv_text' = NVRAM_dumps(nvram)
    /\ UNCHANGED <<nv_in, nvram, nv_via, escVars, prcVars, manVars, runVars, rzVars, fsVars>>

NextNvram == NewNVRAM \/ GetNvram \/ NvramDumps

SpecNvram == InitNvram /\ [][NextNvram]_vars

\* the lines of a text: its newline-delimited fields
RECURSIVE Lines(_)
Lines(s) ==
    IF \A i \in 1..Len(s) : s[i] # "\n" THEN <<s>>
    ELSE LET i == CHOOSE k \in 1..Len(s) :
                      s[k] = "\n" /\ \A j \in 1..(k - 1) : s[j] # "\n"
         IN  <<SubSeq(s, 1, i - 1)>> \o Lines(SubSeq(s, i + 1, Len(s)))

\* the places of the lines of a text that are equal to h
LinesEqual(s, h) == LET L == Lines(s) IN {n \in 1..Len(L) : L[n] = h}

\* the number of lines a section with n entries takes after its header: a
\* section without entries is one empty line
SectionLines(n) == IF n = 0 THEN 1 ELSE n

NvImages == SelectSeq(nvram.channels, IsImage)
NvOthers == SelectSeq(nvram.channels, NotImage)
NvMappingAt == 3 + SectionLines(Len(NvImages)) + 1
NvEnvAt == NvMappingAt + SectionLines(Len(NvOthers)) + 1
NvDebugAt ==
    IF LinesEqual(nv_text, <<"[", "e", "n", "v", "]">>) = {} THEN NvEnvAt
    ELSE NvEnvAt + Len(nvram.env.items) + 1

\* C11: the text NVRAM.dumps returns has its section headers in the order
\* [args], [fstab], [mapping], [env], [debug], the last two when they are
\* there; the lines after [fstab] are the lines of the image channels, in
\* the order of the channel list, the lines after [mapping] those of the
\* other channels, in the order of the channel list, and the text has as
\* many channel lines as the descriptor has channels
C11_SectionsInOrder ==
    nv_text # <<>> =>
        LET L == Lines(nv_text)
        IN  /\ LinesEqual(nv_text, <<"[", "a", "r", "g", "s", "]">>) = {1}
            /\ startswith(L[2], <<"a", "r", "g", "s", " ", "=", " ">>)
            /\ LinesEqual(nv_text, <<"[", "f", "s", "t", "a", "b", "]">>) = {3}
            /\ LinesEqual(nv_text, <<"[", "m", "a", "p", "p", "i", "n", "g", "]">>) = {NvMappingAt}
            /\ LinesEqual(nv_text, <<"[", "e", "n", "v", "]">>) \subseteq {NvEnvAt}
            /\ LinesEqual(nv_text, <<"[", "d", "e", "b", "u", "g", "]">>) \subseteq {NvDebugAt}
            /\ \A i \in 1..Len(NvImages) :
                   L[3 + i] = Channel_to_nvram_fstab(NvImages[i])
            /\ \A i \in 1..Len(NvOthers) :
                   L[NvMappingAt + i] = Channel_to_nvram_mapping(NvOthers[i])
            /\ Cardinality({n \in 1..Len(L) : startswith(L[n], <<"c", "h", "a", "n", "n", "e", "l", "=">>)})
                   = Len(nvram.channels)

\* a descriptor with two image channels, the second of the pool first, is
\* written with all five sections
C11_Witness ==
    /\ nv_text # <<>>
    /\ Len(NvImages) = 2
    /\ NvImages[1].alias = <<"/", "d", "e", "v", "/", "3", ".", "e", ".", "t", "a", "r">>
    /\ NvImages[2].alias = <<"/", "d", "e", "v", "/", "2", ".", "u", ".", "t", "a", "r">>
    /\ LinesEqual(nv_text, <<"[", "e", "n", "v", "]">>) # {}
    /\ LinesEqual(nv_text, <<"[", "d", "e", "b", "u", "g", "]">>) # {}

\* a descriptor with an image channel after a channel that is no image
C11_WitnessMixed ==
    /\ nv_text # <<>>
    /\ Len(nvram.channels) = 2
    /\ ~nvram.channels[1].is_image
    /\ nvram.channels[2].is_image


\* C12: in the text NVRAM.dumps returns there is an [env] header only if
\* the environment of the descriptor has an entry, and a [debug] header
\* only if the descriptor has a verbosity; a descriptor _get_nvram builds
\* from an empty configuration environment and no declaration on the
\* command line has no [env] header
C12_EnvOnlyIfNonEmpty ==
    nv_text # <<>> =>
        /\ LinesEqual(nv_text, <<"[", "e", "n", "v", "]">>) # {} =>
               ~nvram.env.is_none /\ nvram.env.items # <<>>
        /\ LinesEqual(nv_text, <<"[", "d", "e", "b", "u", "g", "]">>) # {} =>
               ~nvram.debug_verbosity.is_none
        /\ (nv_via = "_get_nvram" /\ nv_in.env = <<>> /\ nv_in.cmd_env = <<>>)
               => LinesEqual(nv_text, <<"[", "e", "n", "v", "]">>) = {}

\* what is left of an escaped value when every \xHH of one of the five
\* characters is read back as the character
RECURSIVE Unescape(_)
Unescape(s) ==
    IF s = <<>> THEN <<>>
    ELSE IF \E c \in SpecialChars : startswith(s, EscapeOf(c))
    THEN <<CHOOSE c \in SpecialChars : startswith(s, EscapeOf(c))>>
             \o Unescape(SubSeq(s, 5, Len(s)))
    ELSE <<Head(s)>> \o Unescape(Tail(s))

\* the value of the args line: what follows 'args = ' on the second line
NvArgsValue == LET line == Lines(nv_text)[2] IN SubSeq(line, 8, Len(line))

\* C13: in the text NVRAM.dumps returns for a descriptor with at least one
\* argument, the value of the args line has exactly len(program_args) - 1
\* spaces, and its pieces between the spaces, each read back from its
\* escapes, are the arguments of the descriptor in order; every line of
\* the [env] section is name=<key>,value=<e> where e has no double-quote,
\* comma, space or newline and, read back from its escapes, is the value
\* of the entry
C13_EscapedPerToken ==
    (nv_text # <<>> /\ nvram.program_args # <<>>) =>
        LET pieces == str_split(NvArgsValue, " ", -1)
            L == Lines(nv_text)
            items == nvram.env.items
        IN  /\ Cardinality({i \in 1..Len(NvArgsValue) : NvArgsValue[i] = " "})
                   = Len(nvram.program_args) - 1
            /\ Len(pieces) = Len(nvram.program_args)
            /\ \A i \in 1..Len(pieces) :
                   Unescape(pieces[i]) = nvram.program_args[i]
            /\ \A i \in 1..Len(items) :
                   LET head == concat(<< <<"n", "a", "m", "e", "=">>, items[i][1], <<",", "v", "a", "l", "u", "e", "=">> >>)
                       line == L[NvEnvAt + i]
                       e == SubSeq(line, Len(head) + 1, Len(line))
                   IN  /\ startswith(line, head)
                       /\ \A k \in 1..Len(e) : e[k] \notin {"\"", ",", " ", "\n"}
                       /\ Unescape(e) = items[i][2]

\* a descriptor with three arguments, the second with a space and the
\* third with a backslash, and an environment value with a space or a
\* newline, is written
C13_Witness ==
    /\ nv_text # <<>>
    /\ Len(nvram.program_args) = 3
    /\ \E i \in 1..Len(nvram.program_args[2]) : nvram.program_args[2][i] = " "
    /\ \E i \in 1..Len(nvram.program_args[3]) : nvram.program_args[3][i] = "\\"
    /\ ~nvram.env.is_none
    /\ \E i \in 1..Len(nvram.env.items) :
           \E k \in 1..Len(nvram.env.items[i][2]) :
               nvram.env.items[i][2][k] \in {" ", "\n"}

NvKeys(items) == {items[i][1] : i \in 1..Len(items)}
NvValue(items, k) == items[CHOOSE i \in 1..Len(items) : items[i][1] = k][2]

\* the entries of the configuration file in their order, each with the
\* value of the command line when the command line declares its key, and
\* after them the entries of the command line whose key the file does not
\* have, in their order
NvMerged(cfg, cmd) ==
    LET IsNew(e) == e[1] \notin NvKeys(cfg)
    IN  [i \in 1..Len(cfg) |->
            IF cfg[i][1] \in NvKeys(cmd)
            THEN <<cfg[i][1], NvValue(cmd, cfg[i][1])>> ELSE cfg[i]]
        \o SelectSeq(cmd, IsNew)

\* C20: the environment of the descriptor _get_nvram builds is the entries
\* of the configuration file in their order followed by the entries of
\* the command line in their order, a key of both standing once, where
\* the file has it, with the value of the command line; and the [env]
\* section of the text has exactly one line per key, in that order
C20_EnvMerged ==
    nv_via = "_get_nvram" =>
        LET items == NvMerged(nv_in.env, nv_in.cmd_env)
        IN  /\ nvram.env = Env(items)
            /\ \A i, j \in 1..Len(items) : items[i][1] = items[j][1] => i = j
            /\ nv_text # <<>> =>
                   LET L == Lines(nv_text)
                   IN  /\ LinesEqual(nv_text, <<"[", "e", "n", "v", "]">>) = {NvEnvAt}
                       /\ Len(L) = NvEnvAt + Len(items) + 1
                       /\ \A i \in 1..Len(items) :
                              L[NvEnvAt + i] = concat(<<
                                  <<"n", "a", "m", "e", "=">>, items[i][1], <<",", "v", "a", "l", "u", "e", "=">>,
                                  PerCharacter(items[i][2]) >>)

\* the file and the command line both give FOO, and each gives a key the
\* other does not have
C20_Witness ==
    /\ nv_via = "_get_nvram"
    /\ nv_text # <<>>
    /\ Len(nv_in.env) = 2
    /\ Len(nv_in.cmd_env) = 2
    /\ Len(nvram.env.items) = 3
    /\ nvram.env.items[1] = <<<<"F", "O", "O">>, <<"b">>>>

----------------------------------------------------------------------------
(* Specification SpecRunZerovm: run_zerovm from its start to the channel   *)
(* list of the manifest, and process_args called on its own with a base    *)
(* ordinal                                                                 *)

\* the arguments after the command: an unmarked token, three marked files
\* (two with the same base name), two declarations of A, the second with a
\* newline in the value, and a marked token whose name is in lower case
RzArgTokens ==
    { <<"t">>, <<"@", "f">>, <<"@", "/", "x", "/", "f">>, <<"@", ".", ".", "/", "g">>, <<"@", "A", "=", "b">>, <<"@", "A", "=", "c", "\n", "d">>, <<"@", "a", "=", "b">> }

\* --zvm-image: none, and lists of specs with one to four components
RzImageLists ==
    { NoImages,
      Images(<< <<"/", "i", "/", "u", ".", "t", "a", "r">> >>),
      Images(<< <<"e", ".", "t", "a", "r", ",", "/", "e", "t", "c", ",", "r", "w">>, <<"f", ",", "/", "m">> >>),
      Images(<< <<"q", ",", "/", "a", ",", "r", "o", ",", "x">> >>),
      Images(<< <<"/", "i", "/", "u", ".", "t", "a", "r">>, <<"q", ",", "/", "a", ",", "r", "o", ",", "x">> >>) }

\* the [fstab] section of the configuration file: host path = mount point
\* and access; the last has no access
RzFstabs ==
    { <<>>,
      << <<<<"/", "h", "/", "u", ".", "t", "a", "r">>, <<"/", "u", "s", "r", " ", "r", "o">>>> >>,
      << <<<<"/", "h", "/", "u", ".", "t", "a", "r">>, <<"/", "u", "s", "r", " ", "r", "o">>>>, <<<<"/", "k", "/", "f">>, <<"/", "m", " ", " ", "r", "w">>>> >>,
      << <<<<"/", "h", "/", "x">>, <<"/", "u", "s", "r">>>> >> }

\* DEFAULT_LIMITS
RzLimits ==
    [reads |-> PyStr(<<"4", "2", "9", "4", "9", "6", "7", "2", "9", "6">>), rbytes |-> PyStr(<<"4", "2", "9", "4", "9", "6", "7", "2", "9", "6">>),
     writes |-> PyStr(<<"4", "2", "9", "4", "9", "6", "7", "2", "9", "6">>), wbytes |-> PyStr(<<"4", "2", "9", "4", "9", "6", "7", "2", "9", "6">>)]

Tty == [isatty |-> TRUE, fd_mode |-> NoMode]
NoTty(m) == [isatty |-> FALSE, fd_mode |-> m]

\* the three streams are terminals, or a pipe, a file and a descriptor
\* without a type
RzProbes == { <<Tty, Tty, Tty>>,
              <<NoTty(FdMode(<<"p", "i", "p", "e">>)), NoTty(FdMode(<<"f", "i", "l", "e">>)), NoTty(NoMode)>> }

\* init_channel_ordinal of a call of process_args on its own
BaseOrdinals == {1, 2, 9}

\* what run_zerovm finds outside: no save directory, so a fresh temporary
\* directory, and the command a file of the host
RzEnvs ==
    { [save_dir |-> FALSE, existing |-> {}, host_command |-> TRUE,
       tars |-> [i \in 1..MaxTars |-> "lacks"], config_env |-> <<>>] }

InitRunZerovm ==
    /\ rz_in \in [fstab : RzFstabs, limits : {RzLimits}, cwd : {<<"/", "w", "/", "d">>},
                  working_dir : {<<"/", "t", "m", "p", "/", "z">>}, node : {Small(1)},
                  probes : RzProbes]
    /\ rz_pc = "start"
    /\ \E cmd_args \in Strings(RzArgTokens, MaxArgs) :
       \E zvm_image \in RzImageLists :
           rz_zvargs = ZvArgs(<<"p">>, cmd_args, zvm_image)
    /\ rz_base = 0
    /\ rz_fstab = <<>>
    /\ rz_manifest_channels = <<>>
    /\ rz_nvram_channels = <<>>
    /\ rz_manifest = <<>>
    /\ rz_exc = ""
    /\ rz_env \in RzEnvs
    /\ rz_dir = FALSE
    /\ rz_files = {}
    /\ rz_log = <<>>
    /\ rz_opened = <<>>
    /\ rz_nvram = NVRAM(<<>>, <<>>, NoEnv, NoVerbosity)
    /\ EscIdle /\ PrcIdle /\ ManIdle /\ RunIdle /\ NvIdle

notRz == <<escVars, prcVars, manVars, runVars, nvVars>>

\* working_dir = _maybe_create_working_dir(zvargs): mkdtemp() makes a new,
\* empty directory; a save directory is made unless it exists, and then
\* holds what it held
MaybeCreateWorkingDir ==
    /\ rz_pc = "start"
    /\ rz_dir' = TRUE
    /\ rz_files' = IF rz_env.save_dir THEN rz_env.existing ELSE {}
    /\ rz_pc' = "working_dir"
    /\ UNCHANGED <<rz_in, rz_zvargs, rz_base, rz_fstab, rz_manifest_channels,
                   rz_nvram_channels, rz_manifest, rz_exc, rz_env, rz_log,
                   rz_opened, rz_nvram, notRz>>

\* fstab_channels = _create_fstab_channels(zvconfig, limits)
CreateFstabChannels ==
    /\ rz_pc = "working_dir"
    /\ LET made == _create_fstab_channels(rz_in.fstab, rz_in.limits)
       IN  /\ rz_fstab' = made.channels
           /\ rz_exc' = made.exc
           /\ rz_pc' = IF made.exc = "" THEN "fstab_done" ELSE "raised"
    /\ UNCHANGED <<rz_in, rz_zvargs, rz_base, rz_manifest_channels,
                   rz_nvram_channels, rz_manifest, fsVars, notRz>>

\* mutant: process_args is called with its default base ordinal
ProcessArgs_base_one ==
    /\ rz_pc = "fstab_done"
    /\ LET done == process_args(rz_zvargs, rz_in.limits, 1, rz_in.cwd)
       IN  /\ rz_zvargs' = done.zvargs
           /\ rz_exc' = done.exc
           /\ rz_pc' = IF done.exc = "" THEN "args_done" ELSE "raised"
    /\ rz_base' = 1
    /\ UNCHANGED <<rz_in, rz_fstab, rz_manifest_channels, rz_nvram_channels,
                   rz_manifest, fsVars, notRz>>

\* zvargs.process_args(init_channel_ordinal=len(fstab_channels) + 1,
\*                     limits=limits)
ProcessArgs ==
    /\ rz_pc = "fstab_done"
    /\ LET done == process_args(rz_zvargs, rz_in.limits, Len(rz_fstab) + 1,
                                rz_in.cwd)
       IN  /\ rz_zvargs' = done.zvargs
           /\ rz_exc' = done.exc
           /\ rz_pc' = IF done.exc = "" THEN "args_done" ELSE "raised"
    /\ rz_base' = Len(rz_fstab) + 1
    /\ UNCHANGED <<rz_in, rz_fstab, rz_manifest_channels, rz_nvram_channels,
                   rz_manifest, fsVars, notRz>>

\* zvargs.process_args(limits, init_channel_ordinal) called on its own
ProcessArgsAlone ==
    /\ rz_pc = "start"
    /\ \E n \in BaseOrdinals :
           LET done == process_args(rz_zvargs, rz_in.limits, n, rz_in.cwd)
           IN  /\ rz_zvargs' = done.zvargs
               /\ rz_exc' = done.exc
               /\ rz_base' = n
    /\ rz_pc' = "args_only"
    /\ UNCHANGED <<rz_in, rz_fstab, rz_manifest_channels, rz_nvram_channels,
                   rz_manifest, fsVars, notRz>>

\* manifest_channels, nvram_channels = prepare_channels(
\*     zvargs, working_dir, node, limits, fstab_channels=fstab_channels)
PrepareChannels ==
    /\ rz_pc = "args_done"
    /\ LET made == prepare_channels(rz_zvargs, rz_in.working_dir, rz_in.node,
                                    rz_in.limits, Channels(rz_fstab),
                                    rz_in.probes)
       IN  /\ rz_manifest_channels' = made.manifest_channels
           /\ rz_nvram_channels' = made.nvram_channels
    /\ rz_pc' = "prepared"
    /\ UNCHANGED <<rz_in, rz_zvargs, rz_base, rz_fstab, rz_manifest, rz_exc,
                   fsVars, notRz>>

\* nvram_channel = Channel(runtime_files['nvram'], '/dev/nvram',
\*                         RND_READ_RND_WRITE, **limits)
NvramChannel ==
    FileChannel(path_join(rz_in.working_dir,
                          <<"n", "v", "r", "a", "m", ".">> \o py_format(rz_in.node)),
                <<"/", "d", "e", "v", "/", "n", "v", "r", "a", "m">>, rz_in.limits)

\* mutant: the nvram channel is put in front of the other channels
AssembleManifest_nvram_first ==
    /\ rz_pc = "boot_found"
    /\ rz_manifest' = <<NvramChannel>> \o rz_manifest_channels
    /\ rz_pc' = "assembled"
    /\ UNCHANGED <<rz_in, rz_zvargs, rz_base, rz_fstab, rz_manifest_channels,
                   rz_nvram_channels, rz_exc, fsVars, notRz>>

\* manifest = _get_manifest(runtime_files['boot'],
\*                          manifest_channels + [nvram_channel], ...)
AssembleManifest ==
    /\ rz_pc = "boot_found"
    /\ rz_manifest' = rz_manifest_channels \o <<NvramChannel>>
    /\ rz_pc' = "assembled"
    /\ UNCHANGED <<rz_in, rz_zvargs, rz_base, rz_fstab, rz_manifest_channels,
                   rz_nvram_channels, rz_exc, fsVars, notRz>>

\* nvram = _get_nvram(zvargs, nvram_channels, env=zvconfig['env'])
GetNvramForRun ==
    /\ rz_pc = "prepared"
    /\ rz_nvram' = _get_nvram(rz_zvargs, rz_nvram_channels, Env(rz_env.config_env))
    /\ rz_pc' = "nvram_made"
    /\ UNCHANGED <<rz_in, rz_zvargs, rz_base, rz_fstab, rz_manifest_channels,
                   rz_nvram_channels, rz_manifest, rz_exc, rz_env, rz_dir,
                   rz_files, rz_log, rz_opened, notRz>>

\* mutant: only the manifest file is looked for
CheckRuntimeFiles_manifest_only ==
    /\ rz_pc = "nvram_made"
    /\ IF "manifest" \in rz_files
       THEN rz_pc' = "raised" /\ rz_exc' = "RuntimeError"
       ELSE rz_pc' = "checked" /\ rz_exc' = rz_exc
    /\ UNCHANGED <<rz_in, rz_zvargs, rz_base, rz_fstab, rz_manifest_channels,
                   rz_nvram_channels, rz_manifest, rz_env, rz_dir, rz_files,
                   rz_log, rz_opened, rz_nvram, notRz>>

\* for file_path in (runtime_files['nvram'], runtime_files['manifest']):
\*     if os.path.exists(file_path): raise RuntimeError(...)
CheckRuntimeFiles ==
    /\ rz_pc = "nvram_made"
    /\ IF "nvram" \in rz_files \/ "manifest" \in rz_files
       THEN rz_pc' = "raised" /\ rz_exc' = "RuntimeError"
       ELSE rz_pc' = "checked" /\ rz_exc' = rz_exc
    /\ UNCHANGED <<rz_in, rz_zvargs, rz_base, rz_fstab, rz_manifest_channels,
                   rz_nvram_channels, rz_manifest, rz_env, rz_dir, rz_files,
                   rz_log, rz_opened, rz_nvram, notRz>>

\* [c.uri for c in manifest_channels if c.is_image]
TarImages == SelectSeq(rz_manifest_channels, IsImage)

\* if os.path.exists(abs_command): the command itself is the boot file;
\* else _extract_nexe(nexe_target, [...], zvargs.args.command)
FindNexe ==
    /\ rz_pc = "checked"
    /\ IF rz_env.host_command
       THEN /\ rz_pc' = "boot_found"
            /\ UNCHANGED <<rz_exc, rz_files, rz_log, rz_opened>>
       ELSE LET got == _extract_nexe(rz_env.tars, Len(TarImages))
            IN  /\ rz_opened' = got.opened
                /\ rz_exc' = got.exc
                /\ rz_pc' = IF got.exc = "" THEN "boot_found" ELSE "raised"
                /\ rz_files' = IF got.exc = "" THEN rz_files \cup {"boot"}
                               ELSE rz_files
                /\ rz_log' = IF got.exc = "" THEN Append(rz_log, "extract")
                             ELSE rz_log
    /\ UNCHANGED <<rz_in, rz_zvargs, rz_base, rz_fstab, rz_manifest_channels,
                   rz_nvram_channels, rz_manifest, rz_env, rz_dir, rz_nvram,
                   notRz>>

\* for stdfile in (runtime_files['stdout'], runtime_files['stderr']):
\*     if not os.path.exists(stdfile): os.mkfifo(stdfile)
MakeFifos ==
    /\ rz_pc = "assembled"
    /\ rz_files' = rz_files \cup {"stdout", "stderr"}
    /\ rz_log' = rz_log
                   \o (IF "stdout" \in rz_files THEN <<>> ELSE <<"mkfifo_stdout">>)
                   \o (IF "stderr" \in rz_files THEN <<>> ELSE <<"mkfifo_stderr">>)
    /\ rz_pc' = "fifos_made"
    /\ UNCHANGED <<rz_in, rz_zvargs, rz_base, rz_fstab, rz_manifest_channels,
                   rz_nvram_channels, rz_manifest, rz_exc, rz_env, rz_dir,
                   rz_opened, rz_nvram, notRz>>

\* with open(runtime_files['manifest'], 'w') as man_fp:
\*     man_fp.write(manifest.dumps())
WriteManifest ==
    /\ rz_pc = "fifos_made"
    /\ rz_files' = rz_files \cup {"manifest"}
    /\ rz_log' = Append(rz_log, "write_manifest")
    /\ rz_pc' = "manifest_written"
    /\ UNCHANGED <<rz_in, rz_zvargs, rz_base, rz_fstab, rz_manifest_channels,
                   rz_nvram_channels, rz_manifest, rz_exc, rz_env, rz_dir,
                   rz_opened, rz_nvram, notRz>>

\* with open(runtime_files['nvram'], 'w') as nvram_fp:
\*     nvram_fp.write(nvram.dumps())
WriteNvram ==
    /\ rz_pc = "manifest_written"
    /\ rz_files' = rz_files \cup {"nvram"}
    /\ rz_log' = Append(rz_log, "write_nvram")
    /\ rz_pc' = "nvram_written"
    /\ UNCHANGED <<rz_in, rz_zvargs, rz_base, rz_fstab, rz_manifest_channels,
                   rz_nvram_channels, rz_manifest, rz_exc, rz_env, rz_dir,
                   rz_opened, rz_nvram, notRz>>

\* try: _run_zerovm(...): ZvRunner.run() ends with sys.exit, or with the
\* exception it lets through
RunnerOutcomes == {"SystemExit", "AttributeError"}

Launch ==
    /\ rz_pc = "nvram_written"
    /\ rz_log' = Append(rz_log, "launch")
    /\ \E outcome \in RunnerOutcomes : rz_exc' = outcome
    /\ rz_pc' = "finally"
    /\ UNCHANGED <<rz_in, rz_zvargs, rz_base, rz_fstab, rz_manifest_channels,
                   rz_nvram_channels, rz_manifest, rz_env, rz_dir, rz_files,
                   rz_opened, rz_nvram, notRz>>

\* finally: if zvargs.args.zvm_save_dir is None: shutil.rmtree(working_dir)
FinallyRmtree ==
    /\ rz_pc = "finally"
    /\ IF rz_env.save_dir
       THEN UNCHANGED <<rz_dir, rz_files, rz_log>>
       ELSE /\ rz_dir' = FALSE
            /\ rz_files' = {}
            /\ rz_log' = Append(rz_log, "rmtree")
    /\ rz_pc' = "finished"
    /\ UNCHANGED <<rz_in, rz_zvargs, rz_base, rz_fstab, rz_manifest_channels,
                   rz_nvram_channels, rz_manifest, rz_exc, rz_env, rz_opened,
                   rz_nvram, notRz>>

NextRunZerovm ==
    \/ MaybeCreateWorkingDir
    \/ CreateFstabChannels
    \/ ProcessArgs
    \/ ProcessArgsAlone
    \/ PrepareChannels
    \/ GetNvramForRun
    \/ CheckRuntimeFiles
    \/ FindNexe
    \/ AssembleManifest
    \/ MakeFifos
    \/ WriteManifest
    \/ WriteNvram
    \/ Launch
    \/ FinallyRmtree

SpecRunZerovm == InitRunZerovm /\ [][NextRunZerovm]_vars

\* process_args has returned or raised
ArgsProcessed ==
    rz_pc \in {"args_done", "args_only"} \/ (rz_pc = "raised" /\ rz_base > 0)

\* a token that declares an environment variable: the marker, a name of
\* upper-case letters, digits and underscores, and an equals sign
IsEnvDecl(tok) ==
    /\ startswith(tok, <<"@">>)
    /\ \E n \in 3..Len(tok) :
           /\ tok[n] = "="
           /\ \A i \in 2..(n - 1) : tok[i] \in ENV_NAME_CHARS

\* a token that names a file: the marker, and no declaration
IsMarkedFile(tok) == startswith(tok, <<"@">>) /\ ~IsEnvDecl(tok)

\* the places of the marked files among the arguments
MarkedFiles == {i \in 1..Len(rz_zvargs.cmd_args) : IsMarkedFile(rz_zvargs.cmd_args[i])}

\* the declared images
DeclaredImages ==
    IF rz_zvargs.zvm_image.is_none THEN <<>> ELSE rz_zvargs.zvm_image.items

\* every declared image is path[,mountPoint[,access]]
ImagesWellFormed ==
    \A i \in 1..Len(DeclaredImages) : Cardinality(Commas(DeclaredImages[i])) <= 2

\* a natural number written in decimal
RECURSIVE Decimal(_)
Decimal(n) ==
    IF n < 10 THEN <<Digits[n + 1]>>
    ELSE Decimal(n \div 10) \o <<Digits[(n % 10) + 1]>>

\* what follows the last slash of a string
LastComponent(s) ==
    LET at == {i \in 1..Len(s) : s[i] = "/"}
    IN  SubSeq(s, IF at = {} THEN 1 ELSE (CHOOSE i \in at : \A j \in at : j <= i) + 1, Len(s))

\* the i-th smallest element of a set of numbers
NthOf(S, i) == CHOOSE x \in S : Cardinality({y \in S : y < x}) = i - 1

\* C14: after process_args with base ordinal N on k marked files and m
\* images, each image of one to three components, there are k + m
\* channels; the i-th has the alias /dev/<N+i-1>.<name>; the first k are
\* those of the marked files from left to right, named after the last
\* component of the file, and the next m those of the images as declared,
\* named after the last component of the path of the image and mounted
\* where the image says
C14_OrdinalsInOrder ==
    (ArgsProcessed /\ ImagesWellFormed) =>
        LET k == Cardinality(MarkedFiles)
            m == Len(DeclaredImages)
            chans == rz_zvargs.channels
        IN  /\ rz_exc = ""
            /\ Len(chans) = k + m
            /\ \A i \in 1..k :
                   /\ ~chans[i].is_image
                   /\ chans[i].alias =
                          concat(<< <<"/", "d", "e", "v", "/">>, Decimal(rz_base + i - 1), <<".">>,
                                    LastComponent(Tail(rz_zvargs.cmd_args[NthOf(MarkedFiles, i)])) >>)
            /\ \A i \in 1..m :
                   /\ chans[k + i].is_image
                   /\ chans[k + i].alias =
                          concat(<< <<"/", "d", "e", "v", "/">>, Decimal(rz_base + k + i - 1), <<".">>,
                                    LastComponent(CommaField(DeclaredImages[i], 1)) >>)
                   /\ Cardinality(Commas(DeclaredImages[i])) >= 1 =>
                          chans[k + i].mount_dir = CommaField(DeclaredImages[i], 2)

\* process_args with base ordinal 9 on two marked files and two images:
\* the ordinals are 9, 10, 11 and 12
C14_Witness ==
    /\ rz_pc = "args_only"
    /\ rz_base = 9
    /\ Cardinality(MarkedFiles) = 2
    /\ Len(DeclaredImages) = 2
    /\ ImagesWellFormed
    /\ Len(rz_zvargs.channels) = 4
    /\ startswith(rz_zvargs.channels[4].alias, <<"/", "d", "e", "v", "/", "1", "2", ".">>)


\* the places of the arguments that declare no environment variable
NotDecls == {i \in 1..Len(rz_zvargs.cmd_args) : ~IsEnvDecl(rz_zvargs.cmd_args[i])}

\* an absolute path without empty, '.' or '..' components
IsNormalAbsolute(p) ==
    /\ startswith(p, <<"/">>)
    /\ \A i \in 1..Len(p) : p[i] = "/" =>
           /\ i < Len(p) \/ i = 1
           /\ i < Len(p) => p[i + 1] # "/"
           /\ ~startswith(SubSeq(p, i + 1, Len(p)) \o <<"/">>, <<".", "/">>)
           /\ ~startswith(SubSeq(p, i + 1, Len(p)) \o <<"/">>, <<".", ".", "/">>)

\* C15: after process_args the processed arguments are the arguments that
\* declare no environment variable, in their order: an unmarked token as
\* it is, and the r-th marked file as the alias /dev/<N+r-1>.<name> of
\* the r-th channel, whose uri is the absolute path of the file
C15_ProcessedArgsInPlace ==
    ArgsProcessed =>
        LET processed == rz_zvargs.processed_cmd_args
            chans == rz_zvargs.channels
        IN  /\ Len(processed) = Cardinality(NotDecls)
            /\ \A j \in 1..Len(processed) :
                   LET i == NthOf(NotDecls, j)
                       tok == rz_zvargs.cmd_args[i]
                       r == Cardinality({x \in MarkedFiles : x <= i})
                   IN  IF ~IsMarkedFile(tok) THEN processed[j] = tok
                       ELSE /\ processed[j] = chans[r].alias
                            /\ chans[r].alias =
                                   concat(<< <<"/", "d", "e", "v", "/">>, Decimal(rz_base + r - 1),
                                             <<".">>, LastComponent(Tail(tok)) >>)
                            /\ chans[r].uri = abspath(Tail(tok), rz_in.cwd)
                            /\ IsNormalAbsolute(chans[r].uri)
                            /\ LastComponent(chans[r].uri) = LastComponent(Tail(tok))

\* process_args on an unmarked token followed by the marked file ../g in
\* the directory /w/d
C15_Witness ==
    /\ rz_pc = "args_only"
    /\ rz_base = 2
    /\ rz_zvargs.cmd_args = << <<"t">>, <<"@", ".", ".", "/", "g">> >>
    /\ rz_zvargs.processed_cmd_args = << <<"t">>, <<"/", "d", "e", "v", "/", "2", ".", "g">> >>
    /\ rz_zvargs.channels[1].uri = <<"/", "w", "/", "g">>

\* the name and the value of a declaration: what is between the marker and
\* the first equals sign, and what follows that sign
DeclName(tok) == SubSeq(tok, 2, str_find(tok, "=") - 1)
DeclValue(tok) == SubSeq(tok, str_find(tok, "=") + 1, Len(tok))

\* C16: after process_args, for every argument @NAME=value the environment
\* has exactly one entry for NAME and its value is that of the last
\* declaration of NAME; the processed arguments are the arguments that are
\* no declaration, and the marked files and the images alone have
\* channels, with the ordinals N .. N+k+m-1
C16_EnvDeclConsumed ==
    ArgsProcessed =>
        LET args == rz_zvargs.cmd_args
            env == rz_zvargs.env
            k == Cardinality(MarkedFiles)
            m == Len(DeclaredImages)
        IN  /\ \A i \in 1..Len(args) : IsEnvDecl(args[i]) =>
                   LET same == {j \in 1..Len(args) :
                                    /\ IsEnvDecl(args[j])
                                    /\ DeclName(args[j]) = DeclName(args[i])}
                       last == CHOOSE j \in same : \A x \in same : x <= j
                   IN  /\ Cardinality({e \in 1..Len(env) :
                                          env[e][1] = DeclName(args[i])}) = 1
                       /\ \E e \in 1..Len(env) :
                              env[e] = <<DeclName(args[i]), DeclValue(args[last])>>
            /\ Len(rz_zvargs.processed_cmd_args) = Cardinality(NotDecls)
            /\ (rz_exc = "" /\ ImagesWellFormed) =>
                   /\ Len(rz_zvargs.channels) = k + m
                   /\ \A c \in 1..(k + m) :
                          startswith(rz_zvargs.channels[c].alias,
                              concat(<< <<"/", "d", "e", "v", "/">>, Decimal(rz_base + c - 1), <<".">> >>))

\* an alias /dev/<ordinal>.<name>: its ordinal is the digits between /dev/
\* and the first dot
HasOrdinal(alias) ==
    /\ startswith(alias, <<"/", "d", "e", "v", "/">>)
    /\ LET rest == SubSeq(alias, 6, Len(alias))
           dot == str_find(rest, ".")
       IN  dot > 1 /\ \A i \in 1..(dot - 1) : IsDigit(rest[i])
AliasOrdinal(alias) ==
    LET rest == SubSeq(alias, 6, Len(alias))
    IN  SubSeq(rest, 1, str_find(rest, ".") - 1)
AliasName(alias) ==
    LET rest == SubSeq(alias, 6, Len(alias))
    IN  SubSeq(rest, str_find(rest, ".") + 1, Len(rest))

\* C17: in the channel list of the manifest run_zerovm assembles no two
\* channels have the same alias, the channels of the fstab section, of the
\* marked files and of the images all have an alias /dev/<ordinal>.<name>,
\* and no two of these have the same ordinal
C17_AliasesDistinct ==
    rz_pc = "assembled" =>
        LET n == Len(rz_manifest)
            numbered == {i \in 1..n : HasOrdinal(rz_manifest[i].alias)}
        IN  /\ \A i, j \in 1..n :
                   rz_manifest[i].alias = rz_manifest[j].alias => i = j
            /\ Cardinality(numbered) =
                   Len(rz_fstab) + Cardinality(MarkedFiles) + Len(DeclaredImages)
            /\ \A i, j \in numbered :
                   AliasOrdinal(rz_manifest[i].alias)
                       = AliasOrdinal(rz_manifest[j].alias) => i = j

\* a manifest with two fstab channels, a marked file and an image, three of
\* them with the name f
C17_Witness ==
    /\ rz_pc = "assembled"
    /\ Len(rz_fstab) = 2
    /\ Cardinality(MarkedFiles) >= 1
    /\ Len(DeclaredImages) = 2
    /\ Cardinality({i \in 1..Len(rz_manifest) :
                       /\ HasOrdinal(rz_manifest[i].alias)
                       /\ AliasName(rz_manifest[i].alias) = <<"f">>}) >= 3

----------------------------------------------------------------------------
(* Specification SpecPrepare: prepare_channels called on its own, for      *)
(* every outcome of the probes of the three streams                        *)

\* what isatty() and _get_fd_mode can say of one stream
StreamProbes ==
    {Tty} \cup {NoTty(m) : m \in {NoMode, FdMode(<<"f", "i", "l", "e">>), FdMode(<<"b", "l", "o", "c", "k">>),
                                  FdMode(<<"p", "i", "p", "e">>), FdMode(<<"c", "h", "a", "r">>)}}

\* limits as the configuration file gives them (DEFAULT_LIMITS, strings)
\* and as ints, the four of them different
PrepLimits ==
    { RzLimits,
      [reads |-> Small(16), rbytes |-> Small(32),
       writes |-> Small(64), wbytes |-> Small(128)] }

InitPrepare ==
    /\ rz_in \in [fstab : {<<>>}, limits : PrepLimits, cwd : {<<"/", "w", "/", "d">>},
                  working_dir : {<<"/", "t", "m", "p", "/", "z">>}, node : {Small(1)},
                  probes : [1..3 -> StreamProbes]]
    /\ rz_pc = "prepare_call"
    /\ \E chans \in {<<>>, <<FileChannel(<<"/", "w", "/", "d", "/", "f">>, <<"/", "d", "e", "v", "/", "2", ".", "f">>, RzLimits)>>} :
           rz_zvargs = [ZvArgs(<<"p">>, <<>>, NoImages) EXCEPT !.channels = chans]
    /\ rz_base = 0
    /\ rz_fstab \in {<<>>, <<ImageChannel(<<"/", "h", "/", "u", ".", "t", "a", "r">>, <<"/", "d", "e", "v", "/", "1", ".", "u", ".", "t", "a", "r">>,
                                          <<"r", "o">>, <<"/", "u", "s", "r">>, RzLimits)>>}
    /\ rz_manifest_channels = <<>>
    /\ rz_nvram_channels = <<>>
    /\ rz_manifest = <<>>
    /\ rz_exc = ""
    /\ EscIdle /\ PrcIdle /\ ManIdle /\ RunIdle /\ NvIdle /\ FsIdle

\* prepare_channels(zvargs, working_dir, node, limits) with or without
\* fstab_channels
PrepareChannelsAlone ==
    /\ rz_pc = "prepare_call"
    /\ \E fstab_channels \in {NoChannels, Channels(rz_fstab)} :
           LET made == prepare_channels(rz_zvargs, rz_in.working_dir,
                                        rz_in.node, rz_in.limits,
                                        fstab_channels, rz_in.probes)
           IN  /\ rz_manifest_channels' = made.manifest_channels
               /\ rz_nvram_channels' = made.nvram_channels
    /\ rz_pc' = "prepared_only"
    /\ UNCHANGED <<rz_in, rz_zvargs, rz_base, rz_fstab, rz_manifest, rz_exc,
                   fsVars, notRz>>

NextPrepare == PrepareChannelsAlone

SpecPrepare == InitPrepare /\ [][NextPrepare]_vars

\* prepare_channels has returned
Prepared == rz_pc \in {"prepared", "prepared_only", "assembled"}

\* the aliases of stdin, stdout and stderr
StreamAliases == << <<"/", "d", "e", "v", "/", "s", "t", "d", "i", "n">>, <<"/", "d", "e", "v", "/", "s", "t", "d", "o", "u", "t">>, <<"/", "d", "e", "v", "/", "s", "t", "d", "e", "r", "r">> >>

\* the places of the nvram channel list that hold the channel of an alias
InNvramList(alias) ==
    {i \in 1..Len(rz_nvram_channels) : rz_nvram_channels[i].alias = alias}

C19_DirectionSplitQuotas ==
    Prepared =>
        \A c \in {rz_manifest_channels[i] : i \in 1..Len(rz_manifest_channels)}
                 \cup {rz_nvram_channels[i] : i \in 1..Len(rz_nvram_channels)} :
            /\ c.alias = <<"/", "d", "e", "v", "/", "s", "t", "d", "i", "n">> =>
                   /\ c.reads = rz_in.limits.reads
                   /\ c.rbytes = rz_in.limits.rbytes
                   /\ c.writes = Small(0)
                   /\ c.wbytes = Small(0)
            /\ c.alias \in {<<"/", "d", "e", "v", "/", "s", "t", "d", "o", "u", "t">>, <<"/", "d", "e", "v", "/", "s", "t", "d", "e", "r", "r">>} =>
                   /\ c.reads = Small(0)
                   /\ c.rbytes = Small(0)
                   /\ c.writes = rz_in.limits.writes
                   /\ c.wbytes = rz_in.limits.wbytes

\* prepare_channels with the limits 16, 32, 64 and 128 and three terminals
C19_Witness ==
    /\ rz_pc = "prepared_only"
    /\ rz_in.limits.reads = Small(16)
    /\ Len(rz_nvram_channels) >= 3
    /\ rz_nvram_channels[1].rbytes = Small(32)
    /\ rz_nvram_channels[2].writes = Small(64)
    /\ rz_nvram_channels[3].wbytes = Small(128)

----------------------------------------------------------------------------
(* SpecLaunch: run_zerovm from the working directory to the removal of the
   temporary directory, with every kind of working directory, command and
   archive *)

\* the arguments: none, or one marked file
LaunchArgs == { <<>>, << <<"@", "f">> >> }

\* --zvm-image: none, one image, two images
LaunchImageLists ==
    { NoImages,
      Images(<< <<"/", "i", "/", "u", ".", "t", "a", "r">> >>),
      Images(<< <<"e", ".", "t", "a", "r", ",", "/", "e", "t", "c", ",", "r", "w">>, <<"f", ",", "/", "m">> >>) }

\* the [fstab] section: empty, one image, one entry without access
LaunchFstabs == {f \in RzFstabs : Len(f) <= 1}

\* a temporary directory, or a save directory that holds nothing or one of
\* the runtime files; the command on the host, or the archives in every
\* state
LaunchEnvs ==
    { e \in [save_dir : BOOLEAN,
             existing : { {}, {"manifest"}, {"nvram"}, {"stdout"} },
             host_command : BOOLEAN,
             tars : [1..MaxTars -> TarStates],
             config_env : { <<>> }] :
        /\ ~e.save_dir => e.existing = {}
        /\ e.host_command => \A i \in 1..MaxTars : e.tars[i] = "lacks" }

InitLaunch ==
    /\ rz_in \in [fstab : LaunchFstabs, limits : {RzLimits}, cwd : {<<"/", "w", "/", "d">>},
                  working_dir : {<<"/", "t", "m", "p", "/", "z">>}, node : {Small(1)},
                  probes : { <<Tty, Tty, Tty>> }]
    /\ rz_pc = "start"
    /\ \E cmd_args \in LaunchArgs :
       \E zvm_image \in LaunchImageLists :
           rz_zvargs = ZvArgs(<<"p">>, cmd_args, zvm_image)
    /\ rz_base = 0
    /\ rz_fstab = <<>>
    /\ rz_manifest_channels = <<>>
    /\ rz_nvram_channels = <<>>
    /\ rz_manifest = <<>>
    /\ rz_exc = ""
    /\ rz_env \in LaunchEnvs
    /\ rz_dir = FALSE
    /\ rz_files = {}
    /\ rz_log = <<>>
    /\ rz_opened = <<>>
    /\ rz_nvram = NVRAM(<<>>, <<>>, NoEnv, NoVerbosity)
    /\ EscIdle /\ PrcIdle /\ ManIdle /\ RunIdle /\ NvIdle

NextLaunch ==
    \/ MaybeCreateWorkingDir
    \/ CreateFstabChannels
    \/ ProcessArgs
    \/ PrepareChannels
    \/ GetNvramForRun
    \/ CheckRuntimeFiles
    \/ FindNexe
    \/ AssembleManifest
    \/ MakeFifos
    \/ WriteManifest
    \/ WriteNvram
    \/ Launch
    \/ FinallyRmtree

SpecLaunch == InitLaunch /\ [][NextLaunch]_vars

\* the manifest file or the nvram file is in the working directory before
\* run_zerovm is called
RuntimeFileExists ==
    rz_env.save_dir /\ rz_env.existing \cap {"manifest", "nvram"} # {}

\* run_zerovm has got as far as the test for the runtime files
ChannelsPrepared == rz_manifest_channels # <<>>

\* C21: when the manifest file or the nvram file is in the working
\* directory, run_zerovm makes no fifo, extracts nothing, writes neither
\* file, opens no archive and does not launch; the directory holds what it
\* held; and once the channels and the nvram are made the next step raises
\* RuntimeError
C21_ExistingFileRefused ==
    RuntimeFileExists =>
        /\ rz_log = <<>>
        /\ rz_opened = <<>>
        /\ rz_dir => rz_files = rz_env.existing
        /\ rz_pc \in {"start", "working_dir", "fstab_done", "args_done",
                      "prepared", "nvram_made", "raised"}
        /\ (rz_pc = "raised" /\ ChannelsPrepared) => rz_exc = "RuntimeError"

\* the nvram file was there, and run_zerovm has raised RuntimeError
C21_Witness ==
    /\ rz_env.existing = {"nvram"}
    /\ rz_env.save_dir
    /\ ~rz_env.host_command
    /\ rz_pc = "raised"
    /\ rz_exc = "RuntimeError"
    /\ rz_log = <<>>

\* the archives run_zerovm hands to _extract_nexe, by their place
ArchivePlaces == 1..Len(TarImages)

\* the archives that hold the command
Holding == {i \in ArchivePlaces : rz_env.tars[i] = "has"}

\* run_zerovm has looked for the command in the archives
LookedUp ==
    /\ ~rz_env.host_command
    /\ ~RuntimeFileExists
    /\ ChannelsPrepared
    /\ rz_pc \notin {"prepared", "nvram_made", "checked"}

\* C22: when the command is no file of the host and no declared archive
\* holds it, run_zerovm raises RuntimeError, and has made no fifo, written
\* no file and not launched; when an archive holds it, the archives opened
\* are those up to the first that holds it
C22_LookupError ==
    LookedUp =>
        /\ Holding = {} =>
               /\ rz_pc = "raised"
               /\ rz_exc = "RuntimeError"
               /\ rz_log = <<>>
        /\ Holding # {} =>
               LET first == CHOOSE i \in Holding : \A j \in Holding : i <= j
               IN  rz_opened = [k \in 1..first |-> k]

\* the part of C22 that holds for archives that cannot be opened as well:
\* nothing is written and nothing launched when no archive holds the
\* command, and no archive after the first that holds it is opened
C22_AbortsBeforeLaunch ==
    LookedUp =>
        /\ Holding = {} => rz_pc = "raised" /\ rz_log = <<>>
        /\ \A k \in 1..Len(rz_opened) :
               \A i \in Holding : rz_opened[k] <= i

\* C23: when run_zerovm has finished, by returning or by raising, and no
\* save directory was given, the working directory is gone; a save
\* directory stays, with all it held
C23_TempDirRemoved ==
    rz_pc \in {"finished", "raised"} =>
        /\ ~rz_env.save_dir => (~rz_dir /\ rz_files = {})
        /\ rz_env.save_dir => (rz_dir /\ rz_env.existing \subseteq rz_files)

\* the part of C23 that holds: the directory is gone after the launch, and
\* a save directory is never removed
C23_RemovedAfterLaunch ==
    /\ rz_pc = "finished" /\ ~rz_env.save_dir => (~rz_dir /\ rz_files = {})
    /\ (rz_env.save_dir /\ rz_pc # "start") =>
           (rz_dir /\ rz_env.existing \subseteq rz_files)

\* the channels process_args made for the marked files, and for the images
FileChannels == SelectSeq(rz_zvargs.channels, NotImage)
ImageChannels == SelectSeq(rz_zvargs.channels, IsImage)

NvramAlias == <<"/", "d", "e", "v", "/", "n", "v", "r", "a", "m">>

\* the manifest file is written
ManifestWritten == rz_pc \in {"manifest_written", "nvram_written", "finally", "finished"}

\* C24: the channel list of the written manifest is stdin, stdout, stderr,
\* the channels of the fstab section, of the marked files and of the
\* images, and last the channel /dev/nvram, which is nowhere else in the
\* list and not among the channels of the nvram
C24_ManifestChannelOrder ==
    ManifestWritten =>
        LET n == Len(rz_manifest)
            f == Len(rz_fstab)
            k == Len(FileChannels)
            m == Len(ImageChannels)
        IN  /\ n = 3 + f + k + m + 1
            /\ k = Cardinality(MarkedFiles)
            /\ m = Len(DeclaredImages)
            /\ \A i \in 1..3 : rz_manifest[i].alias = StreamAliases[i]
            /\ SubSeq(rz_manifest, 4, 3 + f) = rz_fstab
            /\ SubSeq(rz_manifest, 4 + f, 3 + f + k) = FileChannels
            /\ SubSeq(rz_manifest, 4 + f + k, 3 + f + k + m) = ImageChannels
            /\ rz_manifest[n].alias = NvramAlias
            /\ \A i \in 1..(n - 1) : rz_manifest[i].alias # NvramAlias
            /\ \A i \in 1..Len(rz_nvram.channels) :
                   rz_nvram.channels[i].alias # NvramAlias

\* a written manifest with a channel of each kind
C24_Witness ==
    /\ ManifestWritten
    /\ Len(rz_fstab) = 1
    /\ Len(FileChannels) = 1
    /\ Len(ImageChannels) = 2
    /\ Len(rz_manifest) = 8
    /\ Len(rz_nvram.channels) >= 3

----------------------------------------------------------------------------
(* More claims about ZvRunner.run, under SpecRun *)

\* C25: an IOError in stdin_reader, stderr_reader or stdout_write is
\* caught inside the function of the thread: no relay is ended by an
\* exception
C25_RelayErrorsSilenced ==
    \A t \in Relays : threads[t] # "died"

\* what holds of C25: whatever becomes of the relays, run exits with the
\* status the report and the child give
C25_StatusUnaffected ==
    pc = "exited" /\ process = "terminated" =>
        exit_status = IF getrc THEN returncode
                      ELSE IF parsed THEN parse_return_code(report).val
                      ELSE INITIAL_RC

\* C26: run does not end while the child is running, and no
\* KeyboardInterrupt leaves run
C26_NeverExitsWhileChildRuns ==
    /\ pc \in {"exited", "raised"} => process # "running"
    /\ pc = "raised" => exc # "KeyboardInterrupt"

\* what holds of C26: with one interrupt, which the try block catches, run
\* does not end before the child it has launched has terminated, and it
\* writes the dump for a positive exit code
C26_OneInterrupt ==
    (interrupts <= 1 /\ caught = "KeyboardInterrupt") =>
        /\ pc = "raised" => process # "running" /\ exc # "KeyboardInterrupt"
        /\ pc = "exited" => process # "running"
        /\ (pc = "exited" /\ process = "terminated" /\ returncode > 0) => dumped

\* C27: when run is about to read self.report, in parse_return_code or in
\* print_error, report_reader has finished
C27_ReadAfterCollector ==
    pc \in {"parse", "print_error"} => threads["rep_reader"] = "done"

\* C28: when run exits and getrc is off, the status is the return code
\* parsed from the report if the report was parsed, and else -255; the
\* IndexError or ValueError of parse_return_code never leaves run
C28_InitialRcUnlessParsed ==
    /\ (pc = "exited" /\ ~getrc) =>
           exit_status = IF parsed THEN parse_return_code(report).val
                         ELSE INITIAL_RC
    /\ exc \notin {"IndexError", "ValueError"}
    /\ caught \in {"IndexError", "ValueError"} =>
           /\ ~parsed
           /\ parse_return_code(report).kind = "raise"
           /\ pc \in FinallyPcs \cup {"exited", "raised"}

\* run exited with -255 after a report of three lines whose third line is
\* no return code
C28_Witness ==
    /\ pc = "exited"
    /\ ~getrc
    /\ caught = "ValueError"
    /\ report # <<>>
    /\ exit_status = INITIAL_RC

\* run exited with -255 after an empty report
C28_WitnessShort ==
    /\ pc = "exited"
    /\ ~getrc
    /\ caught = "IndexError"
    /\ report = <<>>
    /\ process = "terminated"
    /\ exit_status = INITIAL_RC

\* C29: run never ends by an exception
C29_AlwaysExits ==
    pc # "raised"

\* what holds of C29: when getrc is off, no interrupt arrives in the
\* finally block and print_error does not fail, run ends by sys.exit
C29_ExitsWithoutGetrc ==
    (pc = "raised" /\ ~getrc) => exc \in {"KeyboardInterrupt", "IOError"}

----------------------------------------------------------------------------
(* A claim about _process_images, under SpecRunZerovm *)

\* a path as os.path.abspath gives it in the directory /w/d, for a path
\* without . and .. components
Absolute(p) ==
    IF startswith(p, <<"/">>) THEN p ELSE <<"/", "w", "/", "d", "/">> \o p

\* C30: process_args gets one triple for every declared image, in the
\* order of the images: the image channels are as many as the images, and
\* the i-th is the channel of the path, the mount point and the access of
\* the i-th image, with / and ro where the image names none
C30_TriplePerSpec ==
    (ArgsProcessed /\ DeclaredImages # <<>>) =>
        /\ rz_exc # "UnboundLocalError"
        /\ Len(ImageChannels) = Len(DeclaredImages)
        /\ \A i \in 1..Len(DeclaredImages) :
               LET image == DeclaredImages[i]
                   n == Cardinality(Commas(image)) + 1
               IN  /\ ImageChannels[i].uri = Absolute(CommaField(image, 1))
                   /\ ImageChannels[i].mount_dir =
                          IF n >= 2 THEN CommaField(image, 2) ELSE <<"/">>
                   /\ ImageChannels[i].access =
                          IF n >= 3 THEN CommaField(image, 3) ELSE <<"r", "o">>

\* what holds of C30: the same for images of one to three components
C30_WellFormedImages ==
    (ArgsProcessed /\ DeclaredImages # <<>> /\ ImagesWellFormed) =>
        /\ rz_exc # "UnboundLocalError"
        /\ Len(ImageChannels) = Len(DeclaredImages)
        /\ \A i \in 1..Len(DeclaredImages) :
               LET image == DeclaredImages[i]
                   n == Cardinality(Commas(image)) + 1
               IN  /\ ImageChannels[i].uri = Absolute(CommaField(image, 1))
                   /\ ImageChannels[i].mount_dir =
                          IF n >= 2 THEN CommaField(image, 2) ELSE <<"/">>
                   /\ ImageChannels[i].access =
                          IF n >= 3 THEN CommaField(image, 3) ELSE <<"r", "o">>

====
